---- MODULE Spec2Model ----
(***************************************************************************)
(* Service logbook: the note lifecycle client (notes.service.ts) talking   *)
(* to the notes backend through asynchronous request/response calls, and   *)
(* the filter/search engine of the logbook card (filteredNotesWithHtml),    *)
(* the codec of the structured multi-entry fields and the dialogs of the   *)
(* card (add, edit, recategorize, import from JSON).                       *)
(***************************************************************************)
EXTENDS Integers, Sequences, FiniteSets, TLC

(***************************************************************************)
(* Bounds of the model.                                                    *)
(***************************************************************************)
\* number of calls the user interface starts on the service after it is
\* mounted (load, add, edit, remove); the load of onMount and the reload
\* that edit() starts itself are not counted
MaxCalls == 2
\* number of notes the backend holds before the component is mounted
MaxStored == 2

Texts == {"t0", "t1"}

(***************************************************************************)
(* State of the lifecycle client and of the messages in flight.            *)
(***************************************************************************)
VARIABLES
  notes,        \* NotesService.notes: the local list of notes
  loaded,       \* NotesService.loaded
  requests,     \* calls sent with client.call, not yet answered
  responses,    \* answers whose .then callback has not run yet
  db,           \* the backend's stored notes, in notes.get order
  dbNextId,     \* the id the backend gives to the next added note
  calls,        \* number of calls started by the user interface
  nextRid,      \* identity of the next promise returned by client.call
  mutations,    \* history: number of changes made to the local list
  getProcessed, \* history: number of notes.get responses processed
  last,         \* history: the response processed most recently
  notesWithHtml,         \* $notesWithHtml: the projected notes given to the filter
  filter,                \* $filter: searchQuery and selectedCategoryId
  isPlugPowerUser,       \* $isPlugPowerUser: the privilege flag
  usersDict,             \* the user directory, null until the user list arrives
  translations,          \* the translation table (UNKNOWN_USER)
  filteredNotesWithHtml, \* $filteredNotesWithHtml: the value of the derived store
  evaluatedWith,         \* history: the user directory read by the last evaluation
  agentOrAssetName,      \* the display name of the agent or asset, null until resolved
  dialog,                \* the handler that is running and the dialog it awaits
  alertDialog,           \* the alert dialog that is open, null when none is
  submitted,             \* history: the form submitted most recently
  codec,                 \* a structured field on its way through encode and decode
  rendered,              \* what the card works out for display from a note or the list
  userEmail              \* the email address of the user, null until a lookup returns one

svars == <<notes, loaded, requests, responses, db, dbNextId, calls, nextRid,
           mutations, getProcessed, last>>

fvars == <<notesWithHtml, filter, isPlugPowerUser, usersDict, translations,
           filteredNotesWithHtml, evaluatedWith>>

dvars == <<agentOrAssetName, dialog, alertDialog, submitted, codec, rendered, userEmail>>

vars == <<svars, fvars, dvars>>

\* a value that may be null or undefined: None, or Some(x)
None == <<>>

Some(x) == <<x>>

\* a stored note, reduced to its identity and its text
Note(id, text) == [_id |-> id, text |-> text]

\* ids of the notes of a list
IdsOf(list) == {list[i]._id : i \in 1..Len(list)}

\* a filter with the test inverted: only the note with the id is kept
OnlyId(list, id) == SelectSeq(list, LAMBDA n : n._id = id)

\* notes.filter((note) => note._id !== id)
WithoutId(list, id) == SelectSeq(list, LAMBDA n : n._id # id)

\* { ...n, ...data }: the fields of data override those of n
Merge(n, data) ==
  [f \in DOMAIN n \cup DOMAIN data |-> IF f \in DOMAIN data THEN data[f] ELSE n[f]]

\* a map that merges the data into every note of the list
MergeIntoEveryNote(list, id, data) ==
  [i \in 1..Len(list) |-> Merge(list[i], data)]

\* notes.map((n) => (n._id === id ? { ...n, ...data } : n))
MergeInto(list, id, data) ==
  [i \in 1..Len(list) |-> IF list[i]._id = id THEN Merge(list[i], data) ELSE list[i]]

\* the lists the backend may hold when the component is mounted
InitialDbs ==
  {<<>>, <<Note(1, "t0")>>, <<Note(2, "t1"), Note(1, "t0")>>}

\* the value of last before any response has been processed
NoResponse ==
  [method |-> "none", success |-> FALSE, data |-> <<>>, before |-> <<>>,
   stale |-> FALSE, origin |-> "none", note_id |-> 0]

\* onMount: notesService = new NotesService(client); notesService.load()
ClientMounted ==
  /\ notes = <<>>
  /\ loaded = FALSE
  /\ requests = {[method |-> "notes.get", origin |-> "ui", issuedAt |-> 0, rid |-> 1]}
  /\ responses = {}
  /\ dbNextId = MaxStored + 1
  /\ calls = 0
  /\ nextRid = 2
  /\ mutations = 0
  /\ getProcessed = 0
  /\ last = NoResponse

\* the client mounted on a backend that holds some notes already
ServiceMounted ==
  /\ ClientMounted
  /\ db \in {d \in InitialDbs : Len(d) <= MaxStored}

(***************************************************************************)
(* Calls of the user interface on the service.                             *)
(***************************************************************************)
\* client.call(method, params): a request in flight with a promise of its own
Send(req) ==
  /\ requests' = requests \cup {req @@ [rid |-> nextRid]}
  /\ nextRid' = nextRid + 1

\* NotesService.load(), called again after an import
Load ==
  /\ calls < MaxCalls
  /\ calls' = calls + 1
  /\ Send([method |-> "notes.get", origin |-> "ui", issuedAt |-> mutations])
  /\ UNCHANGED <<notes, loaded, responses, db, dbNextId, mutations, getProcessed, last, fvars, dvars>>

\* NotesService.add(note)
Add ==
  /\ calls < MaxCalls
  /\ calls' = calls + 1
  /\ \E t \in Texts : Send([method |-> "notes.add", note |-> [text |-> t]])
  /\ UNCHANGED <<notes, loaded, responses, db, dbNextId, mutations, getProcessed, last, fvars, dvars>>

\* NotesService.edit(id, note), for a note shown in the list
Edit ==
  /\ calls < MaxCalls
  /\ calls' = calls + 1
  /\ \E id \in IdsOf(notes), t \in Texts :
       Send([method |-> "notes.edit", note_id |-> id, note |-> [text |-> t]])
  /\ UNCHANGED <<notes, loaded, responses, db, dbNextId, mutations, getProcessed, last, fvars, dvars>>

\* NotesService.remove(id), for a note shown in the list: the local list is
\* filtered first, then the call is made; nothing handles its answer
Remove ==
  /\ calls < MaxCalls
  /\ calls' = calls + 1
  /\ \E id \in IdsOf(notes) :
       /\ notes' = WithoutId(notes, id)
       /\ Send([method |-> "notes.remove", note_id |-> id])
  /\ mutations' = mutations + 1
  /\ UNCHANGED <<loaded, responses, db, dbNextId, getProcessed, last, fvars, dvars>>

(***************************************************************************)
(* The backend: it answers each request once, with success or failure.     *)
(* A failed call leaves the stored notes as they are.                      *)
(***************************************************************************)
Answer(q, resp) ==
  /\ requests' = requests \ {q}
  /\ responses' = responses \cup {resp @@ [rid |-> q.rid, method |-> q.method]}

\* notes.get -> list of Note
BackendGet ==
  \E q \in requests :
    /\ q.method = "notes.get"
    /\ \E ok \in BOOLEAN :
         Answer(q, [success |-> ok, data |-> IF ok THEN db ELSE <<>>,
                    origin |-> q.origin, issuedAt |-> q.issuedAt, snapshot |-> db])
    /\ UNCHANGED <<notes, loaded, db, dbNextId, calls, nextRid, mutations, getProcessed, last, fvars, dvars>>

\* the note the backend creates from a payload
Stored(id, payload) == Merge(payload, [_id |-> id])

\* notes.add(payload) -> created Note, with the id the backend generated
BackendAdd ==
  \E q \in requests :
    /\ q.method = "notes.add"
    /\ \E ok \in BOOLEAN :
         IF ok
         THEN /\ db' = <<Stored(dbNextId, q.note)>> \o db
              /\ dbNextId' = dbNextId + 1
              /\ Answer(q, [success |-> TRUE, data |-> Stored(dbNextId, q.note)])
         ELSE /\ Answer(q, [success |-> FALSE, data |-> <<>>])
              /\ UNCHANGED <<db, dbNextId>>
    /\ UNCHANGED <<notes, loaded, calls, nextRid, mutations, getProcessed, last, fvars, dvars>>

\* notes.edit(note_id, ...partialFields) -> updated fields
BackendEdit ==
  \E q \in requests :
    /\ q.method = "notes.edit"
    /\ \E ok \in {b \in BOOLEAN : b => q.note_id \in IdsOf(db)} :
         IF ok
         THEN /\ db' = MergeInto(db, q.note_id, q.note)
              /\ Answer(q, [success |-> TRUE, data |-> q.note, note_id |-> q.note_id])
         ELSE /\ Answer(q, [success |-> FALSE, data |-> <<>>, note_id |-> q.note_id])
              /\ UNCHANGED db
    /\ UNCHANGED <<notes, loaded, dbNextId, calls, nextRid, mutations, getProcessed, last, fvars, dvars>>

\* notes.remove(note_id) -> ack
BackendRemove ==
  \E q \in requests :
    /\ q.method = "notes.remove"
    /\ \E ok \in BOOLEAN :
         /\ db' = IF ok THEN SelectSeq(db, LAMBDA n : n._id # q.note_id) ELSE db
         /\ Answer(q, [success |-> ok, data |-> <<>>, note_id |-> q.note_id])
    /\ UNCHANGED <<notes, loaded, dbNextId, calls, nextRid, mutations, getProcessed, last, fvars, dvars>>

(***************************************************************************)
(* The .then callbacks of the service, one run per answer.                 *)
(***************************************************************************)
Processed(r, isStale) ==
  [method |-> r.method, success |-> r.success, data |-> r.data, before |-> notes,
   stale |-> isStale, origin |-> IF r.method = "notes.get" THEN r.origin ELSE "ui",
   note_id |-> IF r.method \in {"notes.edit", "notes.remove"} THEN r.note_id ELSE 0]

\* a load that keeps the notes added locally in front of the returned list
LoadedListKeepingLocal(r, list) ==
  IF r.success
  THEN SelectSeq(list, LAMBDA n : n._id \notin IdsOf(r.data)) \o r.data
  ELSE list

\* if (result.data.success) { this.notes.set(result.data.data) }
LoadedList(r, list) == IF r.success THEN r.data ELSE list

\* loaded set only by a successful load
LoadedOnSuccessOnly(r) == r.success

\* this.loaded.set(true), outside the test of success
LoadedAfter(r) == TRUE

\* an add that appends the new note
AddedListAtEnd(r, list) == IF r.success THEN list \o <<r.data>> ELSE list

\* if (result.data.success) { notes.update((notes) => [data, ...notes]) }
AddedList(r, list) == IF r.success THEN <<r.data>> \o list ELSE list

\* a reload only after a successful edit
ReloadsOnSuccessOnly(r) == r.success

\* this.load() at the end of the callback of edit, outside the test of success
ReloadsAfterEdit(r) == TRUE

\* load(): .then((result) => { if (success) notes.set(data); loaded.set(true) })
LoadResponse ==
  \E r \in responses :
    /\ r.method = "notes.get"
    /\ responses' = responses \ {r}
    /\ notes' = LoadedList(r, notes)
    /\ loaded' = (loaded \/ LoadedAfter(r))
    /\ getProcessed' = getProcessed + 1
    /\ last' = Processed(r, mutations > r.issuedAt) @@ [snapshot |-> r.snapshot]
    /\ UNCHANGED <<requests, db, dbNextId, calls, nextRid, mutations, fvars, dvars>>

\* add(): .then((result) => { if (success) notes.update([data, ...notes]) })
AddResponse ==
  \E r \in responses :
    /\ r.method = "notes.add"
    /\ responses' = responses \ {r}
    /\ notes' = AddedList(r, notes)
    /\ mutations' = IF r.success THEN mutations + 1 ELSE mutations
    /\ last' = Processed(r, FALSE)
    /\ UNCHANGED <<loaded, requests, db, dbNextId, calls, nextRid, getProcessed, fvars, dvars>>

\* edit(): .then((result) => { if (success) merge into the note; this.load() })
EditResponse ==
  \E r \in responses :
    /\ r.method = "notes.edit"
    /\ responses' = responses \ {r}
    /\ notes' = IF r.success THEN MergeInto(notes, r.note_id, r.data) ELSE notes
    /\ mutations' = IF r.success THEN mutations + 1 ELSE mutations
    /\ IF ReloadsAfterEdit(r)
       THEN Send([method |-> "notes.get", origin |-> "edit", issuedAt |-> mutations'])
       ELSE UNCHANGED <<requests, nextRid>>
    /\ last' = Processed(r, FALSE)
    /\ UNCHANGED <<loaded, db, dbNextId, calls, getProcessed, fvars, dvars>>

\* remove(): the promise of notes.remove resolves, no callback is attached
RemoveResponse ==
  \E r \in responses :
    /\ r.method = "notes.remove"
    /\ responses' = responses \ {r}
    /\ last' = Processed(r, FALSE)
    /\ UNCHANGED <<notes, loaded, requests, db, dbNextId, calls, nextRid, mutations, getProcessed, fvars, dvars>>

(***************************************************************************)
(* The filter/search engine of the card.  A string is a sequence of        *)
(* characters; a tag of the rendered body is one element of the sequence.  *)
(***************************************************************************)
\* number of notes in the list given to the filter
MaxNotes == 2

\* String.prototype.toLowerCase, on the letters the model uses
LowerChar(c) ==
  CASE c = "A" -> "a"
    [] c = "B" -> "b"
    [] c = "C" -> "c"
    [] c = "L" -> "l"
    [] c = "O" -> "o"
    [] c = "P" -> "p"
    [] c = "S" -> "s"
    [] c = "T" -> "t"
    [] c = "U" -> "u"
    [] OTHER -> c

ToLower(str) == [i \in 1..Len(str) |-> LowerChar(str[i])]

\* String.prototype.includes
Includes(str, sub) ==
  \E i \in 0..(Len(str) - Len(sub)) : SubSeq(str, i + 1, i + Len(sub)) = sub

\* x?.toLowerCase().includes(query), false when x is null or undefined
OptIncludes(opt, query) == opt # None /\ Includes(ToLower(opt[1]), query)

Tags == {"<p>", "</p>"}

\* note.text.match(/^<\/?[a-z][\s\S]*>/) ? note.text : renderMarkdownToHtml(note.text)
\* a text without markup is rendered as one paragraph
Html(text) ==
  IF Len(text) > 0 /\ text[1] \in Tags
  THEN text
  ELSE <<"<p>">> \o text \o <<"</p>">>

\* HtmlToReadableText: the inner text of the elements of the body
HtmlToReadableText(html) == SelectSeq(html, LAMBDA c : c \notin Tags)

\* notesWithHtml: { ...note, html }
WithHtml(note) == note @@ [html |-> Html(note.text)]

UnknownUserDefault == <<"U", "n", "k", "n", "o", "w", "n", " ", "U", "s", "e", "r">>

\* _usersDict[id]?.name when id is set, else null
DictName(dict, id) ==
  IF id # None /\ id[1] \in DOMAIN dict THEN Some(dict[id[1]]) ELSE None

\* a ?? b
Coalesce(a, b) == IF a # None THEN a ELSE b

\* a string that is set and not empty
Truthy(opt) == opt # None /\ opt[1] # <<>>

\* getNoteUserName(_usersDict, note)
getNoteUserName(dict, tr, note) ==
  LET nameFromDict ==
        IF dict # None
        THEN Coalesce(DictName(dict[1], note.author_id), DictName(dict[1], note.user))
        ELSE None
  IN  IF Truthy(nameFromDict) THEN nameFromDict[1]
      ELSE IF Truthy(note.author_name) THEN note.author_name[1]
      ELSE IF Truthy(tr.UNKNOWN_USER) THEN tr.UNKNOWN_USER[1]
      ELSE UnknownUserDefault

\* a match on the name the directory gives to any user the note names
NameMatchesAnyUser(dict, tr, note, query) ==
  \/ Includes(ToLower(getNoteUserName(dict, tr, note)), query)
  \/ /\ dict # None
     /\ OptIncludes(DictName(dict[1], note.user), query)

\* getNoteUserName(usersDict, note).toLowerCase().includes(query)
NameMatches(dict, tr, note, query) ==
  Includes(ToLower(getNoteUserName(dict, tr, note)), query)

\* the callback of result.filter((note) => { ... }) for a query
MatchesQuery(dict, tr, note, query) ==
  \/ NameMatches(dict, tr, note, query)
  \/ OptIncludes(note.subject, query)
  \/ Includes(ToLower(HtmlToReadableText(note.html)), query)
  \/ OptIncludes(note.note_category, query)
  \/ /\ note.tag_numbers # None
     /\ \E i \in 1..Len(note.tag_numbers[1]) :
          Includes(ToLower(note.tag_numbers[1][i]), query)
  \/ OptIncludes(note.version, query)
  \/ /\ Truthy(note.stack_replacements)
     /\ Includes(ToLower(note.stack_replacements[1]), query)

\* a gate that lets through every note not flagged internal
GateNotInternal(list, isPlug) ==
  IF ~isPlug
  THEN SelectSeq(list, LAMBDA note : note.external_note # Some(FALSE))
  ELSE list

\* if (!$isPlugPowerUser) result = result.filter((note) => note.external_note === true)
VisibilityGate(list, isPlug) ==
  IF ~isPlug
  THEN SelectSeq(list, LAMBDA note : note.external_note = Some(TRUE))
  ELSE list

\* a category filter that also keeps the notes without a category
CategoryOrUncategorized(result, selectedCategoryId) ==
  IF selectedCategoryId # None
  THEN SelectSeq(result, LAMBDA note :
         note.category = selectedCategoryId \/ note.category = None)
  ELSE result

\* selectedCategoryId !== null
\*   ? result.filter((note) => note.category === selectedCategoryId) : result
CategoryFilter(result, selectedCategoryId) ==
  IF selectedCategoryId # None
  THEN SelectSeq(result, LAMBDA note : note.category = selectedCategoryId)
  ELSE result

\* if (!searchQuery) return result; else the notes that match the query
SearchFilter(result, searchQuery, dict, tr) ==
  IF ~Truthy(searchQuery)
  THEN result
  ELSE SelectSeq(result, LAMBDA note :
         MatchesQuery(dict, tr, note, ToLower(searchQuery[1])))

\* the category filter applied to the whole list instead of the gated one
FilterCategoryOnWholeList(f, list, isPlug, dict, tr) ==
  SearchFilter(
    IF f.selectedCategoryId # None
    THEN CategoryFilter(list, f.selectedCategoryId)
    ELSE VisibilityGate(list, isPlug),
    f.searchQuery, dict, tr)

\* the callback of derived([filter, notesWithHtml, isPlugPowerUser], ...)
FilterNotes(f, list, isPlug, dict, tr) ==
  SearchFilter(
    CategoryFilter(VisibilityGate(list, isPlug), f.selectedCategoryId),
    f.searchQuery, dict, tr)

(***************************************************************************)
(* The stores the filter is derived from, and the values they take.        *)
(***************************************************************************)
\* the stored notes the list is drawn from
NotePool ==
  { [_id |-> 1, external_note |-> Some(TRUE), category |-> Some(1),
     author_id |-> Some("u1"), user |-> Some("u2"), author_name |-> None,
     subject |-> Some(<<"P", "u", "m", "p">>), text |-> <<"l", "e", "a", "k">>,
     note_category |-> Some(<<"C", "a", "l">>), tag_numbers |-> Some(<<<<"T", "1">>>>),
     version |-> None, stack_replacements |-> None,
     stack_inspections |-> None, stack_tensioning |-> None, stack_installs |-> None],
    [_id |-> 2, external_note |-> Some(FALSE), category |-> Some(1),
     author_id |-> None, user |-> None, author_name |-> Some(<<"B", "o">>),
     subject |-> None, text |-> <<"<p>", "o", "k", "</p>">>,
     note_category |-> None, tag_numbers |-> None,
     version |-> Some(<<"v", "2">>), stack_replacements |-> None,
     stack_inspections |-> None, stack_tensioning |-> None, stack_installs |-> None],
    [_id |-> 3, external_note |-> None, category |-> None,
     author_id |-> None, user |-> None, author_name |-> None,
     subject |-> None, text |-> <<"a", "l">>,
     note_category |-> None, tag_numbers |-> None,
     version |-> None, stack_replacements |-> None,
     stack_inspections |-> None, stack_tensioning |-> None,
     stack_installs |-> Some(<<"(", "'", "a", "'", ",", "'", "S", "1", "'", ")", ";">>)],
    [_id |-> 4, external_note |-> Some(TRUE), category |-> Some(2),
     author_id |-> None, user |-> Some("u2"), author_name |-> Some(<<"A", "l">>),
     subject |-> None, text |-> <<"x">>,
     note_category |-> Some(<<"S", "t", "a", "c", "k">>), tag_numbers |-> None,
     version |-> None,
     stack_replacements |-> Some(<<"(", "'", "a", "'", ",", "'", "S", "1", "'", ")", ";">>),
     stack_inspections |-> None, stack_tensioning |-> None, stack_installs |-> None] }

\* the list without its i-th note
WithoutIndex(list, i) == SubSeq(list, 1, i - 1) \o SubSeq(list, i + 1, Len(list))

CategoryIds == {1, 2}

Queries ==
  {None, Some(<<>>), Some(<<"a", "l">>), Some(<<"B", "O">>), Some(<<"u", "n">>),
   Some(<<"s", "1">>)}

\* the user directories the user list may give
UsersDicts ==
  {[u1 |-> <<"A", "l">>],
   [u1 |-> <<"A", "l">>, u2 |-> <<"B", "o">>],
   [u1 |-> <<"A", "l">>, u2 |-> <<"C", "y">>]}

\* context.translate([... "UNKNOWN_USER" ...]): no translation, or one
Translations ==
  {[UNKNOWN_USER |-> None], [UNKNOWN_USER |-> Some(<<"O", "n", "b">>)]}

\* the stores and the tables as declared: let translations = {}
FilterMounted ==
  /\ notesWithHtml = <<>>
  /\ filter = [searchQuery |-> None, selectedCategoryId |-> None]
  /\ isPlugPowerUser = FALSE
  /\ usersDict = None
  /\ translations = [UNKNOWN_USER |-> None]
  /\ filteredNotesWithHtml = <<>>
  /\ evaluatedWith = None

\* no handler of the card is running
NoDialog ==
  [rev |-> "none", flow |-> "none", step |-> "none", note |-> None,
   category |-> None, initialValue |-> <<>>]

NoSubmission ==
  [rev |-> "none", flow |-> "none", category |-> None, groups |-> <<>>,
   name |-> None, file |-> None, outcome |-> "none"]

\* no structured field is being encoded or decoded
NoCodec ==
  [step |-> "none", writer |-> "none", category |-> <<>>, form |-> <<>>,
   field |-> None, records |-> <<>>, groups |-> <<>>, again |-> None]

\* nothing has been worked out for display
NothingRendered == [step |-> "none"]

HandlersIdle ==
  /\ dialog = NoDialog
  /\ alertDialog = None
  /\ submitted = NoSubmission

\* let agentOrAssetName: string | null = null, and no dialog opened yet
DialogsMounted ==
  /\ agentOrAssetName = None
  /\ HandlersIdle
  /\ codec = NoCodec
  /\ rendered = NothingRendered
  /\ userEmail = None

Init == ServiceMounted /\ FilterMounted /\ DialogsMounted

\* a store the filter is derived from has changed: the callback runs again,
\* reading the user directory and the translations as they are now
Derive ==
  /\ filteredNotesWithHtml' =
       FilterNotes(filter', notesWithHtml', isPlugPowerUser', usersDict, translations)
  /\ evaluatedWith' = usersDict
  /\ UNCHANGED <<usersDict, translations, svars, dvars>>

\* onMount: translations = context.translate([...]), before any note, user
\* list or input of the user has arrived; no store changes
Translated ==
  /\ FilterMounted
  /\ translations' \in Translations
  /\ UNCHANGED <<notesWithHtml, filter, isPlugPowerUser, usersDict,
                 filteredNotesWithHtml, evaluatedWith, svars, dvars>>

\* notes.set(value): the list of notes changes, by a note put in front or a
\* note taken out (any list a reload returns is reached this way), and
\* notesWithHtml follows
NotesChanged ==
  /\ \/ /\ Len(notesWithHtml) < MaxNotes
        /\ \E note \in NotePool :
             notesWithHtml' = <<WithHtml(note)>> \o notesWithHtml
     \/ \E i \in 1..Len(notesWithHtml) :
          notesWithHtml' = WithoutIndex(notesWithHtml, i)
  /\ UNCHANGED <<filter, isPlugPowerUser>>
  /\ Derive

\* $filter.selectedCategoryId = selectedCategoryId, or the filter chip removed
SelectCategory ==
  /\ \E c \in {None} \cup {Some(id) : id \in CategoryIds} :
       filter' = [filter EXCEPT !.selectedCategoryId = c]
  /\ UNCHANGED <<notesWithHtml, isPlugPowerUser>>
  /\ Derive

\* bind:value={$filter.searchQuery}, or the search closed
Search ==
  /\ \E q \in Queries : filter' = [filter EXCEPT !.searchQuery = q]
  /\ UNCHANGED <<notesWithHtml, isPlugPowerUser>>
  /\ Derive

\* the user list arrives: usersDict is assigned, no store changes
UserListArrived ==
  /\ \E d \in UsersDicts : usersDict' = Some(d)
  /\ UNCHANGED <<notesWithHtml, filter, isPlugPowerUser, translations,
                 filteredNotesWithHtml, evaluatedWith, svars, dvars>>

\* the addresses a lookup may return: null when the request fails or the
\* answer holds no address
UserEmails ==
  {None,
   Some(<<"a", "@", "P", "l", "u", "g", "P", "o", "w", "e", "r", ".", "c", "o", "m">>),
   Some(<<"a", "@", "x", ".", "i", "o">>)}

\* a test that takes every address for one of Plug Power
IsPlugPowerEmailAlways(email) == TRUE

\* userEmail.toLowerCase().includes("@plugpower.com")
IsPlugPowerEmail(email) ==
  Includes(ToLower(email),
           <<"@", "p", "l", "u", "g", "p", "o", "w", "e", "r", ".", "c", "o", "m">>)

\* userEmail = await fetchCurrentUserEmail();
\* if (userEmail) isPlugPowerUser.set(userEmail.toLowerCase().includes("@plugpower.com"))
UserEmailArrived ==
  /\ \E email \in UserEmails :
       /\ userEmail' = email
       /\ isPlugPowerUser' = IF Truthy(email) THEN IsPlugPowerEmail(email[1])
                              ELSE isPlugPowerUser
  /\ UNCHANGED <<notesWithHtml, filter>>
  /\ filteredNotesWithHtml' =
       FilterNotes(filter', notesWithHtml', isPlugPowerUser', usersDict, translations)
  /\ evaluatedWith' = usersDict
  /\ UNCHANGED <<usersDict, translations, svars, agentOrAssetName, dialog, alertDialog,
                 submitted, codec, rendered>>

NextFilter ==
  \/ Translated
  \/ NotesChanged
  \/ SelectCategory
  \/ Search
  \/ UserListArrived
  \/ UserEmailArrived

\* the card mounted on an empty logbook
InitFilter == Init /\ db = <<>>

SpecFilter == InitFilter /\ [][NextFilter]_vars

Next ==
  \/ Load
  \/ Add
  \/ Edit
  \/ Remove
  \/ BackendGet
  \/ BackendAdd
  \/ BackendEdit
  \/ BackendRemove
  \/ LoadResponse
  \/ AddResponse
  \/ EditResponse
  \/ RemoveResponse

Spec == Init /\ [][Next]_vars

(***************************************************************************)
(* The client when the user starts nothing while an edit is being          *)
(* reconciled, with a backend that answers every call and callbacks that   *)
(* run once their promise is resolved.                                     *)
(***************************************************************************)
\* an edit whose answer, or whose reload, is still on its way
EditBusy ==
  \/ \E q \in requests :
       q.method = "notes.edit" \/ (q.method = "notes.get" /\ q.origin = "edit")
  \/ \E r \in responses :
       r.method = "notes.edit" \/ (r.method = "notes.get" /\ r.origin = "edit")

QuietLoad == ~EditBusy /\ Load

QuietAdd == ~EditBusy /\ Add

QuietEdit == ~EditBusy /\ Edit

QuietRemove == ~EditBusy /\ Remove

NextQuiet ==
  \/ QuietLoad
  \/ QuietAdd
  \/ QuietEdit
  \/ QuietRemove
  \/ BackendGet
  \/ BackendAdd
  \/ BackendEdit
  \/ BackendRemove
  \/ LoadResponse
  \/ AddResponse
  \/ EditResponse
  \/ RemoveResponse

\* every call is answered and every resolved promise runs its callback
Answered ==
  /\ WF_vars(BackendGet)
  /\ WF_vars(BackendAdd)
  /\ WF_vars(BackendEdit)
  /\ WF_vars(BackendRemove)
  /\ WF_vars(LoadResponse)
  /\ WF_vars(AddResponse)
  /\ WF_vars(EditResponse)
  /\ WF_vars(RemoveResponse)

SpecQuiet == Init /\ [][NextQuiet]_vars /\ Answered

(***************************************************************************)
(* The structured multi-entry fields: stack_replacements,                  *)
(* stack_inspections, stack_tensioning and stack_installs.  A field is a   *)
(* string, a sequence of characters; a record of the form is a group of    *)
(* sub-values under the identifier of its stack.                           *)
(***************************************************************************)
\* number of stack groups filled in on one form
MaxFilled == 2

\* the two revisions of the card under src/
Revisions == {"service-logbook.svelte", "part_004"}

StackReplacementsName == <<"S", "t", "a", "c", "k", " ", "r", "e", "p", "l", "a", "c", "e", "m", "e", "n", "t", "s">>

StackInspectionName == <<"S", "t", "a", "c", "k", " ", "i", "n", "s", "p", "e", "c", "t", "i", "o", "n">>

StackTensioningName == <<"S", "t", "a", "c", "k", " ", "t", "e", "n", "s", "i", "o", "n", "i", "n", "g">>

StackInstallsName == <<"S", "t", "a", "c", "k", " ", "i", "n", "s", "t", "a", "l", "l", "s">>

CalibrationName == <<"C", "a", "l", "i", "b", "r", "a", "t", "i", "o", "n">>

SoftwareUpdateName == <<"S", "o", "f", "t", "w", "a", "r", "e", " ", "u", "p", "d", "a", "t", "e">>

SettingsChangeName == <<"S", "e", "t", "t", "i", "n", "g", "s", " ", "c", "h", "a", "n", "g", "e">>

OtherName == <<"O", "t", "h", "e", "r">>

\* the categories whose form holds one group per stack
StackCategories ==
  {StackReplacementsName, StackInspectionName, StackTensioningName, StackInstallsName}

\* const allStackIdentifiers = ["a", "b", "c", "d", "e"]
allStackIdentifiers == <<<<"a">>, <<"b">>, <<"c">>, <<"d">>, <<"e">>>>

\* getStackCount(): 1 for a name that includes "EX425D", 5 otherwise
getStackCount(name) ==
  IF ~Truthy(name) THEN 5
  ELSE IF Includes(name[1], <<"E", "X", "4", "2", "5", "D">>) THEN 1
  ELSE IF Includes(name[1], <<"E", "X", "2", "1", "2", "5", "D">>) THEN 5
  ELSE 5

\* allStackIdentifiers.slice(0, stackCount)
stackIdentifiers(name) == SubSeq(allStackIdentifiers, 1, getStackCount(name))

\* Array.prototype.join
RECURSIVE Join(_, _)
Join(list, sep) ==
  IF list = <<>> THEN <<>>
  ELSE IF Len(list) = 1 THEN list[1]
  ELSE list[1] \o sep \o Join(Tail(list), sep)

\* String.prototype.split on a separator of one character
RECURSIVE Split(_, _)
Split(str, c) ==
  IF \A i \in 1..Len(str) : str[i] # c
  THEN <<str>>
  ELSE LET k == CHOOSE i \in 1..Len(str) :
                  str[i] = c /\ \A j \in 1..(i - 1) : str[j] # c
       IN  <<SubSeq(str, 1, k - 1)>> \o Split(SubSeq(str, k + 1, Len(str)), c)

\* r.trim() is the empty string
Blank(r) == \A i \in 1..Len(r) : r[i] = " "

\* field.split(";").filter((r) => r.trim())
Segments(field) == SelectSeq(Split(field, ";"), LAMBDA r : ~Blank(r))

\* '${x}' inside a template
Quoted(x) == <<"'">> \o x \o <<"'">>

\* `('${f1}','${f2}',...)`
TupleText(fields) ==
  <<"(">> \o Join([i \in 1..Len(fields) |-> Quoted(fields[i])], <<",">>) \o <<")">>

\* checked ? "true" : "false"
BoolText(b) == IF b THEN <<"t", "r", "u", "e">> ELSE <<"f", "a", "l", "s", "e">>

\* the tuples joined without the semicolon that ends the field
PackedWithoutEnd(tuples) == Join(tuples, <<";">>)

\* tuples.join(";") + ";"
Packed(tuples) == Join(tuples, <<";">>) \o <<";">>

\* stackReplacements.join(","), as the older recategorize writes the field
PackedWithCommas(tuples) == Join(tuples, <<",">>)

\* the position of the first apostrophe of r after position p, 0 when none
NextQuote(r, p) ==
  IF \E j \in (p + 1)..Len(r) : r[j] = "'"
  THEN CHOOSE j \in (p + 1)..Len(r) :
         r[j] = "'" /\ \A i \in (p + 1)..(j - 1) : r[i] # "'"
  ELSE 0

\* the groups of '([^']..)','([^']..)'...'\) read from the apostrophe at p:
\* shape[k] tells whether group k is [^']+ (TRUE) or [^']* (FALSE)
RECURSIVE MatchFrom(_, _, _, _)
MatchFrom(r, p, shape, k) ==
  LET close == NextQuote(r, p)
      group == SubSeq(r, p + 1, close - 1)
  IN  IF close = 0 \/ (shape[k] /\ group = <<>>) THEN None
      ELSE IF k = Len(shape)
      THEN IF close + 1 <= Len(r) /\ r[close + 1] = ")"
           THEN Some(<<group>>)
           ELSE None
      ELSE IF close + 2 <= Len(r) /\ r[close + 1] = "," /\ r[close + 2] = "'"
      THEN LET rest == MatchFrom(r, close + 2, shape, k + 1)
           IN  IF rest = None THEN None ELSE Some(<<group>> \o rest[1])
      ELSE None

\* r.match(/\('(..)','(..)'...\)/): the groups of the leftmost match, or null
Match(r, shape) ==
  LET starts == {i \in 1..(Len(r) - 1) :
                   r[i] = "(" /\ r[i + 1] = "'" /\ MatchFrom(r, i + 1, shape, 1) # None}
  IN  IF starts = {} THEN None
      ELSE MatchFrom(r, (CHOOSE i \in starts : \A j \in starts : i <= j) + 1, shape, 1)

\* /\('([^']+)','([^']*)','([^']*)','([^']*)','([^']+)'\)/
ReplacementShape == <<TRUE, FALSE, FALSE, FALSE, TRUE>>

\* /\('([^']+)','([^']*)','([^']*)','([^']+)'\)/
InspectionShape == <<TRUE, FALSE, FALSE, TRUE>>

\* /\('([^']+)','([^']*)','([^']*)'\)/
InspectionOldShape == <<TRUE, FALSE, FALSE>>

\* /\('([^']+)','([^']*)'\)/
InstallShape == <<TRUE, FALSE>>

\* the matches of the segments, the segments without a match left out
Matches(field, shapes) ==
  LET segs == Segments(field)
      first(r) == IF Match(r, shapes[1]) # None \/ Len(shapes) = 1
                  THEN Match(r, shapes[1])
                  ELSE Match(r, shapes[2])
      found == SelectSeq(segs, LAMBDA r : first(r) # None)
  IN  [i \in 1..Len(found) |-> first(found[i])[1]]

\* a record without its identifier: the group the form holds for a stack
GroupOfRecord(record) ==
  [f \in DOMAIN record \ {"stack_identifier"} |-> record[f]]

\* for (const r of records) initialValue[`stack_group_${r.stack_identifier}`] = {...}:
\* a later record of an identifier replaces an earlier one
GroupsOf(records) ==
  [id \in {records[i].stack_identifier : i \in 1..Len(records)} |->
     LET latest == CHOOSE i \in 1..Len(records) :
                     /\ records[i].stack_identifier = id
                     /\ \A j \in (i + 1)..Len(records) : records[j].stack_identifier # id
     IN  GroupOfRecord(records[latest])]

\* note.stack_replacements.split(";").filter(..).map(match ..).filter((r) => r !== null)
Replacements(field) ==
  LET m == Matches(field, <<ReplacementShape>>)
  IN  [i \in 1..Len(m) |->
         [stack_identifier |-> m[i][1],
          removed_serial_number |-> m[i][2],
          added_serial_number |-> m[i][3],
          stack_symptom |-> m[i][4],
          stack_symptom_confirmed |-> (m[i][5] = <<"t", "r", "u", "e">>)]]

\* note.stack_inspections: matchNew, with the flag, else matchOld, without it
Inspections(field) ==
  LET m == Matches(field, <<InspectionShape, InspectionOldShape>>)
  IN  [i \in 1..Len(m) |->
         [stack_identifier |-> m[i][1],
          stack_serial_number |-> m[i][2],
          insight |-> m[i][3],
          stack_completed |-> (Len(m[i]) = 4 /\ m[i][4] = <<"t", "r", "u", "e">>)]]

\* note.stack_tensioning: the tuple with the flag only
Tensionings(field) ==
  LET m == Matches(field, <<InspectionShape>>)
  IN  [i \in 1..Len(m) |->
         [stack_identifier |-> m[i][1],
          stack_serial_number |-> m[i][2],
          insight |-> m[i][3],
          stack_completed |-> (m[i][4] = <<"t", "r", "u", "e">>)]]

\* note.stack_installs
Installs(field) ==
  LET m == Matches(field, <<InstallShape>>)
  IN  [i \in 1..Len(m) |->
         [stack_identifier |-> m[i][1], stack_serial_number |-> m[i][2]]]

\* service-logbook.svelte: /\('([^']+)','([^']*)','([^']*)','([^']*)'\)/
InspectionSvelteShape == <<TRUE, FALSE, FALSE, FALSE>>

\* service-logbook.svelte, note.stack_inspections: identifier, serial, insight
InspectionsSvelte(field) ==
  LET m == Matches(field, <<InspectionSvelteShape>>)
  IN  [i \in 1..Len(m) |->
         [stack_identifier |-> m[i][1],
          stack_identifier_value |-> m[i][2],
          stack_serial_number |-> m[i][3],
          insight |-> m[i][4]]]

\* the field of the note that holds the groups of a category
FieldOf(category) ==
  CASE category = StackReplacementsName -> "stack_replacements"
    [] category = StackInspectionName -> "stack_inspections"
    [] category = StackTensioningName -> "stack_tensioning"
    [] category = StackInstallsName -> "stack_installs"

\* the decoding handleEditNoteButtonClick does for the category of the note:
\* if (note.note_category === .. && note.<field>) { .. }
Decoded(rev, category, field) ==
  IF ~Truthy(field) THEN <<>>
  ELSE CASE category = StackReplacementsName -> Replacements(field[1])
         [] category = StackInspectionName ->
              IF rev = "part_004" THEN Inspections(field[1])
              ELSE InspectionsSvelte(field[1])
         [] category = StackTensioningName ->
              IF rev = "part_004" THEN Tensionings(field[1]) ELSE <<>>
         [] category = StackInstallsName ->
              IF rev = "part_004" THEN Installs(field[1]) ELSE <<>>
         [] OTHER -> <<>>

\* value[`stack_group_${identifier}`] || {}, each sub-value || ""
NoReplacement ==
  [removed_serial_number |-> <<>>, added_serial_number |-> <<>>,
   stack_symptom |-> <<>>, stack_symptom_confirmed |-> FALSE]

NoInspection ==
  [stack_serial_number |-> <<>>, insight |-> <<>>, stack_completed |-> FALSE]

NoInspectionSvelte ==
  [stack_identifier_value |-> <<>>, stack_serial_number |-> <<>>, insight |-> <<>>]

NoInstall == [stack_serial_number |-> <<>>]

GroupOf(groups, id, empty) == IF id \in DOMAIN groups THEN groups[id] ELSE empty

\* a replacement pushed as soon as any of its sub-values is filled in
ReplacementFilledAny(g) ==
  \/ g.removed_serial_number # <<>>
  \/ g.added_serial_number # <<>>
  \/ g.stack_symptom # <<>>
  \/ g.stack_symptom_confirmed

\* if (removed_serial_number || added_serial_number)
ReplacementFilled(g) ==
  g.removed_serial_number # <<>> \/ g.added_serial_number # <<>>

\* if (stack_serial_number || insight)
InspectionFilled(g) == g.stack_serial_number # <<>> \/ g.insight # <<>>

\* service-logbook.svelte: if (stack_identifier || stack_serial_number || insight)
InspectionFilledSvelte(g) ==
  \/ g.stack_identifier_value # <<>>
  \/ g.stack_serial_number # <<>>
  \/ g.insight # <<>>

\* if (stack_serial_number)
InstallFilled(g) == g.stack_serial_number # <<>>

\* the loop over stackIdentifiers that pushes the tuples of "Stack replacements"
stackReplacements(groups, name) ==
  LET g(id) == GroupOf(groups, id, NoReplacement)
      filled == SelectSeq(stackIdentifiers(name), LAMBDA id : ReplacementFilled(g(id)))
  IN  [i \in 1..Len(filled) |->
         TupleText(<<filled[i],
                     g(filled[i]).removed_serial_number,
                     g(filled[i]).added_serial_number,
                     g(filled[i]).stack_symptom,
                     BoolText(g(filled[i]).stack_symptom_confirmed)>>)]

\* the loop that pushes the tuples of "Stack inspection"
stackInspections(groups, name) ==
  LET g(id) == GroupOf(groups, id, NoInspection)
      filled == SelectSeq(stackIdentifiers(name), LAMBDA id : InspectionFilled(g(id)))
  IN  [i \in 1..Len(filled) |->
         TupleText(<<filled[i],
                     g(filled[i]).stack_serial_number,
                     g(filled[i]).insight,
                     BoolText(g(filled[i]).stack_completed)>>)]

\* service-logbook.svelte: the tuples of "Stack inspection", without a flag
stackInspectionsSvelte(groups, name) ==
  LET g(id) == GroupOf(groups, id, NoInspectionSvelte)
      filled == SelectSeq(stackIdentifiers(name),
                          LAMBDA id : InspectionFilledSvelte(g(id)))
  IN  [i \in 1..Len(filled) |->
         TupleText(<<filled[i],
                     g(filled[i]).stack_identifier_value,
                     g(filled[i]).stack_serial_number,
                     g(filled[i]).insight>>)]

\* the loop that pushes the tuples of "Stack tensioning"
stackTensioning(groups, name) ==
  LET g(id) == GroupOf(groups, id, NoInspection)
      filled == SelectSeq(stackIdentifiers(name), LAMBDA id : InspectionFilled(g(id)))
  IN  [i \in 1..Len(filled) |->
         TupleText(<<filled[i],
                     g(filled[i]).stack_serial_number,
                     g(filled[i]).insight,
                     BoolText(g(filled[i]).stack_completed)>>)]

\* the loop that pushes the tuples of "Stack installs"
stackInstalls(groups, name) ==
  LET g(id) == GroupOf(groups, id, NoInstall)
      filled == SelectSeq(stackIdentifiers(name), LAMBDA id : InstallFilled(g(id)))
  IN  [i \in 1..Len(filled) |->
         TupleText(<<filled[i], g(filled[i]).stack_serial_number>>)]

\* the tuples a handler of a revision builds for the category of the form;
\* the older revision has no case for tensioning and installs
Tuples(rev, category, groups, name) ==
  CASE category = StackReplacementsName -> stackReplacements(groups, name)
    [] category = StackInspectionName ->
         IF rev = "part_004" THEN stackInspections(groups, name)
         ELSE stackInspectionsSvelte(groups, name)
    [] category = StackTensioningName ->
         IF rev = "part_004" THEN stackTensioning(groups, name) ELSE <<>>
    [] category = StackInstallsName ->
         IF rev = "part_004" THEN stackInstalls(groups, name) ELSE <<>>
    [] OTHER -> <<>>

(***************************************************************************)
(* A structured field on its way from a form through the encoding of       *)
(* handleAddButtonClick, the decoding of handleEditNoteButtonClick and the *)
(* encoding of an edit that is confirmed without a change.                 *)
(***************************************************************************)
\* the names the agent or asset may have
AssetNames ==
  {None, Some(<<"1", "-", "E", "X", "4", "2", "5", "D">>), Some(<<"E", "X", "2", "1", "2", "5", "D">>), Some(<<"P", "1">>)}

\* what the user may put in the group of one stack
GroupChoices(rev, category) ==
  CASE category = StackReplacementsName ->
         {NoReplacement,
          [NoReplacement EXCEPT !.removed_serial_number = <<"S", "1">>],
          [NoReplacement EXCEPT !.added_serial_number = <<"S", ",", "2", ")">>,
                                !.stack_symptom = <<"t", "i", "e", "_", "r", "o", "d">>,
                                !.stack_symptom_confirmed = TRUE],
          [NoReplacement EXCEPT !.stack_symptom = <<"t", "i", "e", "_", "r", "o", "d">>],
          [NoReplacement EXCEPT !.removed_serial_number = <<"S", "'", "3">>]}
    [] category = StackInspectionName /\ rev = "service-logbook.svelte" ->
         {NoInspectionSvelte,
          [NoInspectionSvelte EXCEPT !.stack_identifier_value = <<"S", "A">>,
                                     !.stack_serial_number = <<"S", "1">>],
          [NoInspectionSvelte EXCEPT !.stack_identifier_value = <<"S", "A">>,
                                     !.stack_serial_number = <<"S", "1">>,
                                     !.insight = <<"o", "k">>],
          [NoInspectionSvelte EXCEPT !.insight = <<"t", "r", "u", "e">>]}
    [] category \in {StackInspectionName, StackTensioningName} ->
         {NoInspection,
          [NoInspection EXCEPT !.stack_serial_number = <<"S", "1">>],
          [NoInspection EXCEPT !.insight = <<"o", ",", "k">>, !.stack_completed = TRUE],
          [NoInspection EXCEPT !.stack_completed = TRUE],
          [NoInspection EXCEPT !.stack_serial_number = <<"S", "1">>, !.insight = <<"i", "t", "'", "s">>]}
    [] category = StackInstallsName ->
         {NoInstall,
          [NoInstall EXCEPT !.stack_serial_number = <<"S", "1">>],
          [NoInstall EXCEPT !.stack_serial_number = <<"S", ";", "2">>]}

\* the stack categories a revision offers
StackCategoriesOf(rev) ==
  IF rev = "part_004" THEN StackCategories
  ELSE {StackReplacementsName, StackInspectionName}

\* the groups of a form: at most MaxFilled stacks touched by the user
FormGroups(rev, category) ==
  UNION {[S -> GroupChoices(rev, category)] :
           S \in {T \in SUBSET {allStackIdentifiers[i] : i \in 1..5} :
                    Cardinality(T) <= MaxFilled}}

\* fields as the backend may hold them: tuples of an earlier shape, a tuple
\* with a symptom only, tuples out of order, a foreign identifier, text that
\* is no tuple, and fields of the current shape
StoredFields(category) ==
  CASE category = StackReplacementsName ->
         {<<"(", "'", "a", "'", ",", "'", "S", "1", "'", ",", "'", "S", "2", "'", ",", "'", "t", "i", "e", "_", "r", "o", "d", "'", ")", ";">>,
          <<"(", "'", "a", "'", ",", "'", "'", ",", "'", "'", ",", "'", "t", "i", "e", "_", "r", "o", "d", "'", ",", "'", "t", "r", "u", "e", "'", ")", ";">>,
          <<"(", "'", "b", "'", ",", "'", "S", "1", "'", ",", "'", "'", ",", "'", "'", ",", "'", "f", "a", "l", "s", "e", "'", ")", ";", "(", "'", "a", "'", ",", "'", "S", "2", "'", ",", "'", "'", ",", "'", "'", ",", "'", "f", "a", "l", "s", "e", "'", ")", ";">>,
          <<"(", "'", "f", "'", ",", "'", "S", "1", "'", ",", "'", "'", ",", "'", "'", ",", "'", "f", "a", "l", "s", "e", "'", ")", ";">>,
          <<"(", "'", "a", "'", ",", "'", "S", "1", ";", "x">>,
          <<"(", "'", "a", "'", ",", "'", "S", "1", "'", ",", "'", "'", ",", "'", "'", ",", "'", "f", "a", "l", "s", "e", "'", ")", ";", "(", "'", "c", "'", ",", "'", "'", ",", "'", "S", "2", "'", ",", "'", "t", "i", "e", "_", "r", "o", "d", "'", ",", "'", "t", "r", "u", "e", "'", ")", ";">>}
    [] category = StackInspectionName ->
         {<<"(", "'", "a", "'", ",", "'", "S", "1", "'", ",", "'", "o", "k", "'", ")", ";">>,
          <<"(", "'", "a", "'", ",", "'", "S", "1", "'", ",", "'", "o", "k", "'", ",", "'", "f", "a", "l", "s", "e", "'", ")", ";", "(", "'", "b", "'", ",", "'", "S", "2", "'", ",", "'", "'", ")", ";">>,
          <<" ", ";", "(", "'", "a", "'">>,
          <<"(", "'", "a", "'", ",", "'", "S", "1", "'", ",", "'", "'", ",", "'", "t", "r", "u", "e", "'", ")", ";", "(", "'", "b", "'", ",", "'", "'", ",", "'", "o", "k", "'", ",", "'", "f", "a", "l", "s", "e", "'", ")", ";">>}
    [] category = StackTensioningName -> {<<"(", "'", "a", "'", ",", "'", "S", "1", "'", ",", "'", "o", "k", "'", ")", ";">>}
    [] category = StackInstallsName -> {<<"(", "'", "a", "'", ",", "'", "S", "1", "'", ")", "(", "'", "b", "'", ",", "'", "S", "2", "'", ")", ";">>}

\* the forms a revision can be about to add
FormsOf(rev) ==
  UNION {{[NoCodec EXCEPT !.step = "form", !.writer = rev, !.category = c, !.form = g] :
            g \in FormGroups(rev, c)} : c \in StackCategoriesOf(rev)}

\* a form about to be added by a revision, or a field as stored
CodecInputs ==
  UNION {FormsOf(rev) : rev \in Revisions}
  \cup UNION {{[NoCodec EXCEPT !.step = "encoded", !.category = c, !.field = Some(f)] :
                 f \in StoredFields(c)} : c \in StackCategories}

\* handleAddButtonClick: if (tuples.length > 0) noteData.<field> = tuples.join(";") + ";"
CodecEncode ==
  /\ codec.step = "form"
  /\ LET tuples == Tuples(codec.writer, codec.category, codec.form, agentOrAssetName)
     IN  codec' = [codec EXCEPT !.step = "encoded",
                                !.field = IF Len(tuples) > 0
                                          THEN Some(Packed(tuples))
                                          ELSE None]
  /\ UNCHANGED <<svars, fvars, agentOrAssetName, dialog, alertDialog, submitted, rendered, userEmail>>

\* handleEditNoteButtonClick of part_004 opens the note: the records of the
\* field and the groups of initialValue
CodecDecode ==
  /\ codec.step = "encoded"
  /\ LET records == Decoded("part_004", codec.category, codec.field)
     IN  codec' = [codec EXCEPT !.step = "decoded",
                                !.records = records,
                                !.groups = GroupsOf(records)]
  /\ UNCHANGED <<svars, fvars, agentOrAssetName, dialog, alertDialog, submitted, rendered, userEmail>>

\* the form confirmed as it was opened: the tuples built from result.value,
\* the field written unless the list is empty
CodecReencode ==
  /\ codec.step = "decoded"
  /\ LET tuples == Tuples("part_004", codec.category, codec.groups, agentOrAssetName)
     IN  codec' = [codec EXCEPT !.step = "reencoded",
                                !.again = IF Len(tuples) > 0
                                          THEN Some(Packed(tuples))
                                          ELSE None]
  /\ UNCHANGED <<svars, fvars, agentOrAssetName, dialog, alertDialog, submitted, rendered, userEmail>>

NextCodec ==
  \/ CodecEncode
  \/ CodecDecode
  \/ CodecReencode

\* the card mounted on an empty logbook, with a form or a stored field
InitCodec ==
  /\ ClientMounted
  /\ db = <<>>
  /\ FilterMounted
  /\ HandlersIdle
  /\ agentOrAssetName \in AssetNames
  /\ codec \in CodecInputs
  /\ rendered = NothingRendered
  /\ userEmail = None

SpecCodec == InitCodec /\ [][NextCodec]_vars

(***************************************************************************)
(* The dialogs of the card: the handlers of the add button, of the edit    *)
(* and recategorize buttons of a note and of the import from JSON.  One    *)
(* handler runs at a time, awaiting the dialog it has opened.              *)
(***************************************************************************)
\* number of handlers the user starts
MaxDialogs == 1

\* note[f], undefined when the note has no such field
Field(note, f) == IF f \in DOMAIN note THEN note[f] ELSE None

\* the optional fields of Note the card reads, all undefined
OptionalFields ==
  [external_note |-> None, category |-> None, author_id |-> None, user |-> None,
   author_name |-> None, subject |-> None, note_category |-> None,
   tag_numbers |-> None, version |-> None, stack_replacements |-> None,
   stack_inspections |-> None, stack_tensioning |-> None, stack_installs |-> None]

\* $notesWithHtml of a list of notes: notes.map((note) => ({ ...note, html }))
Projected(list) == [i \in 1..Len(list) |-> WithHtml(Merge(OptionalFields, list[i]))]

\* the notes the backend holds when the card of the dialogs is mounted: a
\* note of stack replacements and a calibration note, as the add flow
\* writes them
StoredNotes ==
  <<[_id |-> 2, text |-> <<"x">>, note_category |-> Some(StackReplacementsName),
     external_note |-> Some(TRUE), workorder_id |-> Some(<<"w", "1">>),
     stack_replacements |-> Some(<<"(", "'", "a", "'", ",", "'", "S", "1", "'", ",", "'", "'", ",", "'", "'", ",", "'", "f", "a", "l", "s", "e", "'", ")", ";">>)],
    [_id |-> 1, text |-> <<"y">>, note_category |-> Some(CalibrationName),
     external_note |-> Some(TRUE), tag_numbers |-> Some(<<<<"T", "1">>>>)]>>

\* allCategoryOptions of part_004, categories of service-logbook.svelte
AllCategories(rev) ==
  IF rev = "part_004"
  THEN {CalibrationName, SoftwareUpdateName, SettingsChangeName, StackReplacementsName,
        StackInspectionName, StackTensioningName, StackInstallsName, OtherName}
  ELSE {CalibrationName, SoftwareUpdateName, SettingsChangeName, StackReplacementsName,
        StackInspectionName, OtherName}

\* categoryOptions: part_004 hides the stack categories from users that are
\* not Plug Power users
CategoryOptions(rev, isPlug) ==
  IF rev = "part_004" /\ ~isPlug
  THEN AllCategories(rev) \ StackCategories
  ELSE AllCategories(rev)

\* what the user puts in the group of stack "a" on a form of the card: a
\* serial number, or a symptom or a flag without a serial number
DialogChoices(rev, category) ==
  CASE category = StackReplacementsName ->
         {[NoReplacement EXCEPT !.removed_serial_number = <<"S", "1">>],
          [NoReplacement EXCEPT !.stack_symptom = <<"t", "i", "e", "_", "r", "o", "d">>]}
    [] category = StackInspectionName /\ rev = "service-logbook.svelte" ->
         {[NoInspectionSvelte EXCEPT !.stack_identifier_value = <<"S", "A">>,
                                     !.stack_serial_number = <<"S", "1">>]}
    [] category \in {StackInspectionName, StackTensioningName} ->
         {[NoInspection EXCEPT !.stack_serial_number = <<"S", "1">>],
          [NoInspection EXCEPT !.stack_completed = TRUE]}
    [] category = StackInstallsName ->
         {[NoInstall EXCEPT !.stack_serial_number = <<"S", "1">>]}

\* the groups the user may leave in the form of a stack category: nothing
\* touched, or the group of stack "a"
DialogGroups(rev, category) ==
  UNION {[S -> DialogChoices(rev, category)] : S \in {{}, {<<"a">>}}}

\* the value of a form without the inputs of a category: the text, and the
\* checkbox external_note where the form has it (part_004 shows it to Plug
\* Power users only), left as it is
CommonValues(rev, isPlug) ==
  IF rev = "part_004" /\ ~isPlug
  THEN {[text |-> <<"x">>]}
  ELSE {[text |-> <<"x">>, external_note |-> Some(FALSE)]}

\* the inputs _getNoteInputs adds for the category, as the user may fill
\* them in; stack_groups stands for the keys stack_group_<identifier>
CategoryValues(rev, category) ==
  CASE category = CalibrationName -> {[tag_numbers |-> Some(<<<<"T", "1">>>>)]}
    [] category = SettingsChangeName -> {[tag_numbers |-> None]}
    [] category = SoftwareUpdateName ->
         {[software_type |-> Some(<<"f", "w">>), version |-> Some(<<>>)]}
    [] category = StackReplacementsName ->
         {[workorder_id |-> IF g = <<>> THEN Some(<<"w", "2">>) ELSE Some(<<>>),
           stack_groups |-> g] : g \in DialogGroups(rev, category)}
    [] category \in StackCategoriesOf(rev) ->
         {[stack_groups |-> g] : g \in DialogGroups(rev, category)}
    [] OTHER -> {<<>>}

\* result.value of the form dialog of a category
FormValues(rev, category, isPlug) ==
  {Merge(c, v) : c \in CommonValues(rev, isPlug), v \in CategoryValues(rev, category)}

\* value[`stack_group_${identifier}`] for every identifier
Groups(value) == IF "stack_groups" \in DOMAIN value THEN value.stack_groups ELSE <<>>

\* a field of the payload named by the category: { [field]: x }
FieldRecord(category, x) == [f \in {FieldOf(category)} |-> x]

\* x || null
OrNull(opt) == IF Truthy(opt) THEN opt ELSE None

\* the keys of the value that are set
Defined(value) == [k \in {f \in DOMAIN value : value[f] # None} |-> value[k]]

\* the stack categories the handlers of a revision encode
Encodes(rev, category) == category \in StackCategoriesOf(rev)

\* tuples.join(";") + ";" in every handler but the recategorize handler of
\* service-logbook.svelte, which writes tuples.join(",")
Written(rev, flow, tuples) ==
  IF rev = "service-logbook.svelte" /\ flow = "recategorize"
  THEN PackedWithCommas(tuples)
  ELSE Packed(tuples)

\* the flag of the payload taken from the form whoever the user is
ExternalNoteOfForm(rev, value, isPlug) ==
  Some(Coalesce(Field(value, "external_note"), Some(FALSE))[1])

\* external_note of the payload that add and recategorize build:
\* get(isPlugPowerUser) ? (value.external_note ?? false) : true
ExternalNote(rev, value, isPlug) ==
  IF rev = "part_004" /\ ~isPlug
  THEN Some(TRUE)
  ELSE Some(Coalesce(Field(value, "external_note"), Some(FALSE))[1])

\* handleAddButtonClick: noteData, the field of the category when a tuple
\* was pushed, then Object.assign(noteData, restOfValue)
AddPayload(rev, category, value, isPlug, name) ==
  LET tuples == Tuples(rev, category, Groups(value), name)
      noteData == [note_category |-> Some(category),
                   external_note |-> ExternalNote(rev, value, isPlug)]
      withField == IF Encodes(rev, category) /\ Len(tuples) > 0
                   THEN Merge(noteData, FieldRecord(category, Some(Written(rev, "add", tuples))))
                   ELSE noteData
  IN  Merge(withField, Defined(value))

\* a validation that lets every submission through
RejectedNever(rev, category, tuples) == FALSE

\* if (tuples.length === 0) { openAlertDialog(..); .. } of a stack category
Rejected(rev, category, tuples) == Encodes(rev, category) /\ Len(tuples) = 0

\* the category whose form handleEditNoteButtonClick opens:
\* note.note_category || "Other"
CategoryOf(note) ==
  IF Truthy(Field(note, "note_category")) THEN note.note_category[1] ELSE OtherName

\* initialValue[`stack_group_${identifier}`] of the edit form: the groups of
\* the records decoded from the field of the category of the note
InitialGroups(rev, note) ==
  IF Encodes(rev, CategoryOf(note))
  THEN GroupsOf(Decoded(rev, CategoryOf(note), Field(note, FieldOf(CategoryOf(note)))))
  ELSE <<>>

\* result.value of the edit form: the form as it was opened, or changed
EditValues(rev, category, initial, isPlug) ==
  FormValues(rev, category, isPlug)
  \cup {Merge(v, [stack_groups |-> initial]) :
          v \in {w \in FormValues(rev, category, isPlug) : "stack_groups" \in DOMAIN w}}

\* handleEditNoteButtonClick: updatedNote = { ...rest }, then the field of
\* the category of the note
EditPayload(rev, category, value, tuples) ==
  IF Encodes(rev, category)
  THEN Merge(Defined(value), FieldRecord(category, Some(Written(rev, "edit", tuples))))
  ELSE Defined(value)

\* the fields handleRecategorizeNoteButtonClick sets to null
ClearedFieldsButWorkorder(rev) ==
  {"tag_numbers", "software_type", "version", "stack_replacements", "stack_inspections"}

\* "Clear old category-specific fields"; stack_installs and stack_tensioning
\* are fields of Note in part_004 only
ClearedFields(rev) ==
  IF rev = "part_004"
  THEN {"tag_numbers", "software_type", "version", "stack_replacements",
        "stack_inspections", "stack_installs", "stack_tensioning", "workorder_id"}
  ELSE {"tag_numbers", "version", "software_type", "stack_replacements",
        "stack_inspections", "workorder_id"}

\* handleRecategorizeNoteButtonClick: updatedNote with the fields of the old
\* category cleared, then the fields of the new category
RecategorizePayload(rev, note, newCategory, value, isPlug, tuples) ==
  LET updatedNote ==
        Merge([note_category |-> Some(newCategory),
               text |-> IF rev = "part_004" /\ value.text = <<>>
                        THEN note.text ELSE value.text,
               external_note |-> ExternalNote(rev, value, isPlug)],
              [f \in ClearedFields(rev) |-> None])
      written == FieldRecord(newCategory, Some(Written(rev, "recategorize", tuples)))
  IN  CASE newCategory \in {CalibrationName, SettingsChangeName} ->
             IF value.tag_numbers # None
             THEN Merge(updatedNote, [tag_numbers |-> value.tag_numbers])
             ELSE updatedNote
        [] newCategory = SoftwareUpdateName ->
             Merge(updatedNote, [software_type |-> OrNull(value.software_type),
                                 version |-> OrNull(value.version)])
        [] newCategory = StackReplacementsName ->
             Merge(Merge(updatedNote, [workorder_id |-> OrNull(value.workorder_id)]),
                   written)
        [] Encodes(rev, newCategory) -> Merge(updatedNote, written)
        [] OTHER -> updatedNote

\* the card runs one revision: the handlers are those of the revision that
\* made the last submission
RevisionRunning(rev) == submitted.rev \in {"none", rev}

\* a button of the card can be used: no dialog is open
CanOpen(rev) ==
  /\ dialog = NoDialog
  /\ alertDialog = None
  /\ calls < MaxDialogs
  /\ RevisionRunning(rev)

\* the handler starts and awaits its first dialog
Opened(d) ==
  /\ dialog' = d
  /\ calls' = calls + 1
  /\ UNCHANGED <<notes, loaded, requests, responses, db, dbNextId, nextRid, mutations,
                 getProcessed, last, fvars, agentOrAssetName, alertDialog, submitted, codec, rendered, userEmail>>

\* the notes whose buttons the user can reach: the list behind the gate
Listed == VisibilityGate(Projected(notes), isPlugPowerUser)

\* the form submitted, as the history keeps it
Submission(flow, value, outcome) ==
  [rev |-> dialog.rev, flow |-> flow, category |-> dialog.category,
   groups |-> Groups(value), name |-> agentOrAssetName, file |-> None,
   outcome |-> outcome]

\* handleAddButtonClick: step = "category", openFormDialog("Select a category")
OpenAdd ==
  \E rev \in Revisions :
    /\ CanOpen(rev)
    /\ Opened([NoDialog EXCEPT !.rev = rev, !.flow = "add", !.step = "category"])

\* category = categoryResult.value.category; step = "note"
AddCategorySelected ==
  /\ dialog.flow = "add"
  /\ dialog.step = "category"
  /\ \E category \in CategoryOptions(dialog.rev, isPlugPowerUser) :
       dialog' = [dialog EXCEPT !.step = "note", !.category = Some(category)]
  /\ UNCHANGED <<svars, fvars, agentOrAssetName, alertDialog, submitted, codec, rendered, userEmail>>

\* the note form submitted: notesService.add(noteData); step = "exit"
AddNoteSubmitted ==
  /\ dialog.flow = "add"
  /\ dialog.step = "note"
  /\ \E value \in FormValues(dialog.rev, dialog.category[1], isPlugPowerUser) :
       /\ Send([method |-> "notes.add",
                note |-> AddPayload(dialog.rev, dialog.category[1], value,
                                    isPlugPowerUser, agentOrAssetName)])
       /\ submitted' = Submission("add", value, "sent")
  /\ dialog' = NoDialog
  /\ UNCHANGED <<notes, loaded, responses, db, dbNextId, calls, mutations, getProcessed,
                 last, fvars, agentOrAssetName, alertDialog, codec, rendered, userEmail>>

\* handleEditNoteButtonClick(note): initialValue built, the edit form opened
OpenEdit ==
  \E rev \in Revisions, i \in 1..Len(notes) :
    /\ CanOpen(rev)
    /\ notes[i]._id \in IdsOf(Listed)
    /\ Opened([NoDialog EXCEPT !.rev = rev, !.flow = "edit", !.step = "form",
                               !.note = Some(notes[i]),
                               !.category = Some(CategoryOf(notes[i])),
                               !.initialValue = InitialGroups(rev, notes[i])])

\* the edit form confirmed: without a tuple for a stack category the alert
\* is opened and the handler returns, else notesService.edit(note._id, updatedNote)
EditSubmitted ==
  /\ dialog.flow = "edit"
  /\ dialog.step = "form"
  /\ \E value \in EditValues(dialog.rev, dialog.category[1], dialog.initialValue,
                             isPlugPowerUser) :
       LET tuples == Tuples(dialog.rev, dialog.category[1], Groups(value), agentOrAssetName)
       IN  IF Rejected(dialog.rev, dialog.category[1], tuples)
           THEN /\ alertDialog' = Some("Validation Error")
                /\ submitted' = Submission("edit", value, "rejected")
                /\ UNCHANGED <<requests, nextRid>>
           ELSE /\ Send([method |-> "notes.edit", note_id |-> dialog.note[1]._id,
                         note |-> EditPayload(dialog.rev, dialog.category[1], value, tuples)])
                /\ submitted' = Submission("edit", value, "sent")
                /\ UNCHANGED alertDialog
  /\ dialog' = NoDialog
  /\ UNCHANGED <<notes, loaded, responses, db, dbNextId, calls, mutations, getProcessed,
                 last, fvars, agentOrAssetName, codec, rendered, userEmail>>

\* handleRecategorizeNoteButtonClick(note): step = "select_category"
OpenRecategorize ==
  \E rev \in Revisions, i \in 1..Len(notes) :
    /\ CanOpen(rev)
    /\ notes[i]._id \in IdsOf(Listed)
    /\ Opened([NoDialog EXCEPT !.rev = rev, !.flow = "recategorize",
                               !.step = "select_category", !.note = Some(notes[i])])

\* newCategory = categoryResult.value.new_category; step = "fill_new_fields"
RecategorizeCategorySelected ==
  /\ dialog.flow = "recategorize"
  /\ dialog.step = "select_category"
  /\ \E newCategory \in CategoryOptions(dialog.rev, isPlugPowerUser) :
       dialog' = [dialog EXCEPT !.step = "fill_new_fields", !.category = Some(newCategory)]
  /\ UNCHANGED <<svars, fvars, agentOrAssetName, alertDialog, submitted, codec, rendered, userEmail>>

\* the form of the new category submitted: without a tuple for a stack
\* category the alert is awaited and the loop continues with the same step,
\* else await notesService.edit(note._id, updatedNote); step = "exit"
RecategorizeSubmitted ==
  /\ dialog.flow = "recategorize"
  /\ dialog.step = "fill_new_fields"
  /\ \E value \in FormValues(dialog.rev, dialog.category[1], isPlugPowerUser) :
       LET tuples == Tuples(dialog.rev, dialog.category[1], Groups(value), agentOrAssetName)
       IN  IF Rejected(dialog.rev, dialog.category[1], tuples)
           THEN /\ alertDialog' = Some("Validation Error")
                /\ dialog' = [dialog EXCEPT !.step = "alert"]
                /\ submitted' = Submission("recategorize", value, "rejected")
                /\ UNCHANGED <<requests, nextRid>>
           ELSE /\ Send([method |-> "notes.edit", note_id |-> dialog.note[1]._id,
                         note |-> RecategorizePayload(dialog.rev, dialog.note[1],
                                    dialog.category[1], value, isPlugPowerUser, tuples)])
                /\ dialog' = NoDialog
                /\ submitted' = Submission("recategorize", value, "sent")
                /\ UNCHANGED alertDialog
  /\ UNCHANGED <<notes, loaded, responses, db, dbNextId, calls, mutations, getProcessed,
                 last, fvars, agentOrAssetName, codec, rendered, userEmail>>

\* the user closes the alert; a handler that awaits it goes on: the loop of
\* recategorize opens the form of the new category again
AlertClosed ==
  /\ alertDialog # None
  /\ alertDialog' = None
  /\ IF dialog.step = "alert"
     THEN /\ dialog' = [dialog EXCEPT !.step = "fill_new_fields"]
          /\ submitted' = [submitted EXCEPT !.outcome = "presented again"]
     ELSE UNCHANGED <<dialog, submitted>>
  /\ UNCHANGED <<svars, fvars, agentOrAssetName, codec, rendered, userEmail>>

\* a dismissal that ends the handler whatever dialog is open
DismissedEndsHandler(d) == NoDialog

\* the else branch of if (result && result.value): step = "category" for the
\* note form of add, step = "select_category" for the form of recategorize,
\* step = "exit" or a return for every other dialog
Dismissed(d) ==
  CASE d.step = "note" -> [d EXCEPT !.step = "category"]
    [] d.step = "fill_new_fields" -> [d EXCEPT !.step = "select_category"]
    [] OTHER -> NoDialog

\* the dialog dismissed: the note form of add and the form of recategorize
\* go back to the choice of the category, any other dialog ends its handler
DialogCancelled ==
  /\ dialog.step \in {"category", "note", "form", "select_category", "fill_new_fields",
                      "file"}
  /\ dialog' = Dismissed(dialog)
  /\ UNCHANGED <<svars, fvars, agentOrAssetName, alertDialog, submitted, codec, rendered, userEmail>>

\* the text of the file the user picks, by what JSON.parse makes of it: no
\* JSON, null, a value without a notes member or with one that is no array,
\* an array, or the wrapper of an export; notes is the array found
JsonFiles ==
  {[parsed |-> "SyntaxError", notes |-> None],
   [parsed |-> "null", notes |-> None],
   [parsed |-> "object without array", notes |-> None],
   [parsed |-> "array", notes |-> Some(<<>>)],
   [parsed |-> "array", notes |-> Some(<<StoredNotes[2]>>)],
   [parsed |-> "object", notes |-> Some(<<>>)],
   [parsed |-> "object", notes |-> Some(<<StoredNotes[2]>>)]}

\* JSON.parse throws, or parsedData.notes is read of null
Throws(file) == file.parsed \in {"SyntaxError", "null"}

\* Array.isArray(parsedData) ? parsedData : parsedData.notes, null when the
\* value is not an array
notesArray(file) == IF file.parsed \in {"array", "object"} THEN file.notes ELSE None

\* an import that does not look at the length of the array
NothingToImportNever(array) == FALSE

\* if (notesArray.length === 0)
NothingToImport(array) == Len(array) = 0

\* handleUploadJsonButtonClick: openFormDialog with the input "file"
OpenImport ==
  \E rev \in Revisions :
    /\ CanOpen(rev)
    /\ Opened([NoDialog EXCEPT !.rev = rev, !.flow = "import", !.step = "file"])

\* reader.onload: the text parsed; an alert and the end of the handler
\* unless an array with notes was found, then openConfirmDialog
ImportFileRead ==
  /\ dialog.flow = "import"
  /\ dialog.step = "file"
  /\ \E file \in JsonFiles :
       LET outcome ==
             IF Throws(file) \/ notesArray(file) = None THEN "Error"
             ELSE IF NothingToImport(notesArray(file)[1]) THEN "Warning"
             ELSE "confirm"
       IN  /\ submitted' = [NoSubmission EXCEPT !.rev = dialog.rev, !.flow = "import",
                                                 !.file = Some(file), !.outcome = outcome]
           /\ IF outcome = "confirm"
              THEN /\ dialog' = [dialog EXCEPT !.step = "confirm",
                                               !.initialValue = notesArray(file)[1]]
                   /\ UNCHANGED alertDialog
              ELSE /\ dialog' = NoDialog
                   /\ alertDialog' = Some(outcome)
  /\ UNCHANGED <<svars, fvars, agentOrAssetName, codec, rendered, userEmail>>

\* an importData that calls the backend without the records
importDataWithoutRecords(records) ==
  Send([method |-> "notes.import", notes |-> <<>>])

\* NotesService.importData(records): one call of notes.import with the records
importData(records) ==
  Send([method |-> "notes.import", notes |-> records])

\* NotesService.exportData(): one call of notes.export
exportData ==
  Send([method |-> "notes.export"])

\* if (confirmed) { await notesService.importData(notesArray); .. }
ImportConfirmed ==
  /\ dialog.flow = "import"
  /\ dialog.step = "confirm"
  /\ \E confirmed \in BOOLEAN :
       IF confirmed
       THEN /\ importData(dialog.initialValue)
            /\ submitted' = [submitted EXCEPT !.outcome = "confirmed"]
       ELSE /\ submitted' = [submitted EXCEPT !.outcome = "declined"]
            /\ UNCHANGED <<requests, nextRid>>
  /\ dialog' = NoDialog
  /\ UNCHANGED <<notes, loaded, responses, db, dbNextId, calls, mutations, getProcessed,
                 last, fvars, agentOrAssetName, alertDialog, codec, rendered, userEmail>>

\* notes.import(notes: list) -> ack; what becomes of the stored notes is the
\* backend's: the list imported replaces them, or is put in front of the
\* notes it does not name
BackendImport ==
  \E q \in requests :
    /\ q.method = "notes.import"
    /\ \E ok \in BOOLEAN :
         /\ Answer(q, [success |-> ok, data |-> <<>>])
         /\ IF ok
            THEN db' \in {q.notes, q.notes \o SelectSeq(db, LAMBDA n : n._id \notin IdsOf(q.notes))}
            ELSE UNCHANGED db
    /\ UNCHANGED <<notes, loaded, dbNextId, calls, nextRid, mutations, getProcessed, last,
                   fvars, dvars>>

\* importData(): the promise of notes.import resolves and the handler goes
\* on: await notesService.load()
ImportResponse ==
  \E r \in responses :
    /\ r.method = "notes.import"
    /\ responses' = responses \ {r}
    /\ Send([method |-> "notes.get", origin |-> "import", issuedAt |-> mutations])
    /\ last' = Processed(r, FALSE)
    /\ UNCHANGED <<notes, loaded, db, dbNextId, calls, mutations, getProcessed, fvars, dvars>>

NextForms ==
  \/ OpenAdd
  \/ AddCategorySelected
  \/ AddNoteSubmitted
  \/ OpenEdit
  \/ EditSubmitted
  \/ OpenRecategorize
  \/ RecategorizeCategorySelected
  \/ RecategorizeSubmitted
  \/ AlertClosed
  \/ DialogCancelled
  \/ OpenImport
  \/ ImportFileRead
  \/ ImportConfirmed
  \/ BackendGet
  \/ BackendAdd
  \/ BackendEdit
  \/ BackendImport
  \/ LoadResponse
  \/ AddResponse
  \/ EditResponse
  \/ ImportResponse

\* the card mounted on a logbook that holds the stored notes, the lookup of
\* the email of the user answered: isPlugPowerUser.set(..)
InitForms ==
  /\ ClientMounted
  /\ db = StoredNotes
  /\ notesWithHtml = <<>>
  /\ filter = [searchQuery |-> None, selectedCategoryId |-> None]
  /\ isPlugPowerUser \in BOOLEAN
  /\ userEmail \in {e \in UserEmails : Truthy(e) /\ IsPlugPowerEmail(e[1]) = isPlugPowerUser}
  /\ usersDict = None
  /\ translations = [UNKNOWN_USER |-> None]
  /\ filteredNotesWithHtml = <<>>
  /\ evaluatedWith = None
  /\ agentOrAssetName = None
  /\ HandlersIdle
  /\ codec = NoCodec
  /\ rendered = NothingRendered

SpecForms == InitForms /\ [][NextForms]_vars

(***************************************************************************)
(* The bulk export and import of the notes as JSON.                        *)
(***************************************************************************)
\* handleDownloadJsonButtonClick: const result = await notesService.exportData()
ExportClicked ==
  /\ dialog = NoDialog
  /\ alertDialog = None
  /\ calls <= MaxDialogs
  /\ \E rev \in Revisions :
       /\ RevisionRunning(rev)
       /\ submitted' = [NoSubmission EXCEPT !.rev = rev, !.flow = "export",
                                             !.outcome = "asked"]
  /\ calls' = calls + 1
  /\ exportData
  /\ UNCHANGED <<notes, loaded, responses, db, dbNextId, mutations, getProcessed, last,
                 fvars, agentOrAssetName, dialog, alertDialog, codec, rendered, userEmail>>

\* notes.export -> the full note collection, with the metadata of the export
BackendExport ==
  \E q \in requests :
    /\ q.method = "notes.export"
    /\ \E ok \in BOOLEAN :
         Answer(q, [success |-> ok,
                    data |-> IF ok THEN [notes |-> db, exported_by |-> "user"]
                             ELSE [notes |-> <<>>, exported_by |-> "nobody"]])
    /\ UNCHANGED <<notes, loaded, db, dbNextId, calls, nextRid, mutations, getProcessed,
                   last, fvars, dvars>>

\* exportData(): the promise resolves with the answer of the backend;
\* if (result.data.success) the data is saved as a file
ExportResponse ==
  \E r \in responses :
    /\ r.method = "notes.export"
    /\ responses' = responses \ {r}
    /\ last' = Processed(r, FALSE)
    /\ submitted' = [submitted EXCEPT !.outcome = IF r.success THEN "saved" ELSE "not saved"]
    /\ UNCHANGED <<notes, loaded, requests, db, dbNextId, calls, nextRid, mutations,
                   getProcessed, fvars, agentOrAssetName, dialog, alertDialog, codec, rendered, userEmail>>

NextBulk ==
  \/ ExportClicked
  \/ BackendExport
  \/ ExportResponse
  \/ OpenImport
  \/ ImportFileRead
  \/ ImportConfirmed
  \/ BackendImport
  \/ ImportResponse
  \/ AlertClosed
  \/ DialogCancelled
  \/ BackendGet
  \/ LoadResponse

SpecBulk == InitForms /\ [][NextBulk]_vars

(***************************************************************************)
(* The names the card shows with a note: who wrote it, who edited it.      *)
(***************************************************************************)
\* the notes as far as the names read them: ids that the directory knows
\* ("u1", "u2") or not ("u9"), and the names kept on the note itself
NamedNotes ==
  [author_id : {None, Some("u1"), Some("u9")},
   user : {None, Some("u2")},
   author_name : {None, Some(<<"Z", "e">>)},
   editor_id : {None, Some("u1"), Some("u9")},
   editor_name : {None, Some(<<"E", "d">>)}]

\* service-logbook.svelte, getNoteUserName: one chain of ?? when the
\* directory is there, "" when it is not; undefined when nothing is found
\* and UNKNOWN_USER has no translation
getNoteUserNameSvelte(dict, tr, note) ==
  IF dict # None
  THEN Coalesce(DictName(dict[1], note.author_id),
         Coalesce(note.author_name,
           Coalesce(DictName(dict[1], note.user), tr.UNKNOWN_USER)))
  ELSE Some(<<>>)

\* the name shown as the author by a revision, undefined (None) included
UserNameOf(rev, dict, tr, note) ==
  IF rev = "part_004"
  THEN Some(getNoteUserName(dict, tr, note))
  ELSE getNoteUserNameSvelte(dict, tr, note)

\* getNoteEditedBy(_usersDict, note)
getNoteEditedBy(dict, note) ==
  IF dict # None /\ note.editor_id # None /\ Truthy(note.editor_name)
  THEN Coalesce(DictName(dict[1], note.editor_id),
         Coalesce(note.editor_name, Some(<<>>)))[1]
  ELSE <<>>

\* a note about to be rendered by a revision, with the directory and the
\* translations as they are at that moment
NameInputs ==
  {[step |-> "note", rev |-> rev, note |-> note, dict |-> dict, tr |-> tr,
    userName |-> None, editedBy |-> <<>>] :
     rev \in Revisions, note \in NamedNotes,
     dict \in {None} \cup {Some(d) : d \in UsersDicts}, tr \in Translations}

\* _getNoteInfoWho(note): const userName = getNoteUserName(usersDict, note);
\* const editedByUser = getNoteEditedBy(usersDict, note)
RenderWho ==
  /\ rendered.step = "note"
  /\ rendered' = [rendered EXCEPT
                    !.step = "who",
                    !.userName = UserNameOf(rendered.rev, rendered.dict, rendered.tr,
                                            rendered.note),
                    !.editedBy = getNoteEditedBy(rendered.dict, rendered.note)]
  /\ UNCHANGED <<svars, fvars, agentOrAssetName, dialog, alertDialog, submitted, codec,
                 userEmail>>

NextNames == RenderWho

InitNames ==
  /\ ClientMounted
  /\ db = <<>>
  /\ FilterMounted
  /\ HandlersIdle
  /\ agentOrAssetName = None
  /\ codec = NoCodec
  /\ rendered \in NameInputs
  /\ userEmail = None

SpecNames == InitNames /\ [][NextNames]_vars

(***************************************************************************)
(* The serial numbers the forms propose for the stacks: the latest one     *)
(* each stack got by an install or a replacement.                          *)
(***************************************************************************)
\* notes as getLatestStackSerialNumbers reads them: dates in milliseconds,
\* an install of two stacks, replacements with and without an added serial,
\* a note performed long before it was written, a note of another category
LoggedNotes ==
  { [_id |-> 1, note_category |-> Some(StackInstallsName), created_on |-> 1,
     performed_on |-> None, stack_replacements |-> None,
     stack_installs |-> Some(<<"(", "'", "a", "'", ",", "'", "S", "1", "'", ")", ";", "(", "'", "b", "'", ",", "'", "S", "2", "'", ")", ";">>)],
    [_id |-> 2, note_category |-> Some(StackReplacementsName), created_on |-> 2,
     performed_on |-> None, stack_installs |-> None,
     stack_replacements |-> Some(<<"(", "'", "a", "'", ",", "'", "S", "1", "'", ",", "'", "S", "3", "'", ",", "'", "'", ",", "'", "f", "a", "l", "s", "e", "'", ")", ";">>)],
    [_id |-> 3, note_category |-> Some(StackInstallsName), created_on |-> 5,
     performed_on |-> Some(1), stack_replacements |-> None,
     stack_installs |-> Some(<<"(", "'", "a", "'", ",", "'", "S", "4", "'", ")", ";">>)],
    [_id |-> 4, note_category |-> Some(StackReplacementsName), created_on |-> 3,
     performed_on |-> Some(0), stack_installs |-> None,
     stack_replacements |-> Some(<<"(", "'", "b", "'", ",", "'", "S", "2", "'", ",", "'", "'", ",", "'", "t", "i", "e", "_", "r", "o", "d", "'", ",", "'", "t", "r", "u", "e", "'", ")", ";", "(", "'", "a", "'", ",", "'", "S", "3", "'", ",", "'", "S", "6", "'", ",", "'", "'", ",", "'", "f", "a", "l", "s", "e", "'", ")", ";">>)],
    [_id |-> 5, note_category |-> Some(CalibrationName), created_on |-> 9,
     performed_on |-> None, stack_replacements |-> None,
     stack_installs |-> Some(<<"(", "'", "a", "'", ",", "'", "S", "9", "'", ")", ";">>)],
    [_id |-> 6, note_category |-> Some(StackInstallsName), created_on |-> 2,
     performed_on |-> None, stack_replacements |-> None,
     stack_installs |-> Some(<<"(", "'", "c", "'", ",", "'", "S", "5", "'", ")", ";", "(", "'", "a", "'", ",", "'", "'", ")", ";">>)] }

\* the lists of at most MaxNotes of these notes, in any order
LoggedLists ==
  {list \in UNION {[1..n -> LoggedNotes] : n \in 0..MaxNotes} :
     \A i, j \in 1..Len(list) : list[i]._id = list[j]._id => i = j}

\* allNotes.filter((n) => n.note_category === "Stack installs" ||
\*                        n.note_category === "Stack replacements")
relevantNotes(list) ==
  SelectSeq(list, LAMBDA n :
    n.note_category \in {Some(StackInstallsName), Some(StackReplacementsName)})

\* a.performed_on || a.created_on
DateOf(n) ==
  IF n.performed_on # None /\ n.performed_on[1] # 0
  THEN n.performed_on[1]
  ELSE n.created_on

\* a list left in the order it has
AsListed(list) == list

\* relevantNotes.sort((a, b) => dateB - dateA): newest first, notes of one
\* date in the order they had (Array.prototype.sort is stable)
NewestFirst(list) ==
  LET before(j, i) ==
        \/ DateOf(list[j]) > DateOf(list[i])
        \/ DateOf(list[j]) = DateOf(list[i]) /\ j < i
      rank(i) == Cardinality({j \in 1..Len(list) : before(j, i)}) + 1
  IN  [k \in 1..Len(list) |-> list[CHOOSE i \in 1..Len(list) : rank(i) = k]]

\* the identifier and the serial of each tuple of the note: the installs of
\* a "Stack installs" note, the added serials of a "Stack replacements" note
SerialsOf(n) ==
  IF n.note_category = Some(StackInstallsName) /\ Truthy(n.stack_installs)
  THEN LET m == Installs(n.stack_installs[1])
       IN  [k \in 1..Len(m) |->
              [identifier |-> m[k].stack_identifier, serial |-> m[k].stack_serial_number]]
  ELSE IF n.note_category = Some(StackReplacementsName) /\ Truthy(n.stack_replacements)
  THEN LET m == Replacements(n.stack_replacements[1])
       IN  [k \in 1..Len(m) |->
              [identifier |-> m[k].stack_identifier, serial |-> m[k].added_serial_number]]
  ELSE <<>>

\* the tuples of the notes of a list, in the order the loops visit them
RECURSIVE SerialsIn(_)
SerialsIn(list) ==
  IF list = <<>> THEN <<>> ELSE SerialsOf(list[1]) \o SerialsIn(Tail(list))

\* the loops over the tuples visited: serialNumbers.set(identifier, serial)
\* for the first tuple of a needed identifier whose serial is not empty
FirstSerials(visited, needed) ==
  LET hits(id) == {k \in 1..Len(visited) :
                     visited[k].identifier = id /\ visited[k].serial # <<>>}
  IN  [id \in {x \in needed : hits(x) # {}} |->
         visited[CHOOSE k \in hits(id) : \A h \in hits(id) : k <= h].serial]

\* getLatestStackSerialNumbers(): for each needed identifier the first
\* serial that is not empty, going through the notes from the newest on
getLatestStackSerialNumbers(list, name) ==
  LET needed == {stackIdentifiers(name)[i] : i \in 1..Len(stackIdentifiers(name))}
  IN  CHOOSE serialNumbers \in
        {FirstSerials(visited, needed) :
           visited \in {SerialsIn(NewestFirst(relevantNotes(list)))}} : TRUE

\* the form of a new inspection or tensioning note being filled in:
\* const prefillSerials = isEdit ? new Map() : getLatestStackSerialNumbers()
LatestSerialsRead ==
  /\ rendered.step = "list"
  /\ rendered' = [step |-> "serials",
                  serialNumbers |-> getLatestStackSerialNumbers(notes, agentOrAssetName)]
  /\ UNCHANGED <<svars, fvars, agentOrAssetName, dialog, alertDialog, submitted, codec,
                 userEmail>>

NextSerials == LatestSerialsRead

\* the card with its notes loaded and the name of the asset resolved
InitSerials ==
  /\ notes \in LoggedLists
  /\ loaded = TRUE
  /\ requests = {}
  /\ responses = {}
  /\ db = <<>>
  /\ dbNextId = MaxStored + 1
  /\ calls = 0
  /\ nextRid = 2
  /\ mutations = 0
  /\ getProcessed = 1
  /\ last = NoResponse
  /\ FilterMounted
  /\ HandlersIdle
  /\ agentOrAssetName \in AssetNames
  /\ codec = NoCodec
  /\ userEmail = None
  /\ rendered = [step |-> "list"]

SpecSerials == InitSerials /\ [][NextSerials]_vars

(***************************************************************************)
(* Properties of the lifecycle client.                                     *)
(***************************************************************************)
\* the answers whose callback runs in this step
Consumed == responses \ responses'

\* the calls made in this step
Issued == requests' \ requests

\* C1: when the callback of load() processes a notes.get answer with
\* success = true the local list becomes exactly the returned list, whatever
\* was added, edited or removed locally since the request was sent; with
\* success = false the local list is left as it was.
C1_LoadReplacesList ==
  [][\A r \in Consumed :
       r.method = "notes.get" =>
         notes' = IF r.success THEN r.data ELSE notes]_vars

\* a successful load has just overwritten a list that was changed locally
\* between its request and its answer
C1_Witness ==
  /\ last.method = "notes.get"
  /\ last.success
  /\ last.stale
  /\ last.before # last.data
  /\ notes = last.data

\* C2: loaded is true exactly when at least one notes.get answer has been
\* processed, with success or not, and it never goes back to false.
C2_LoadedIffLoadProcessed ==
  /\ [](loaded <=> getProcessed > 0)
  /\ [][loaded => loaded']_vars

\* the first load answer reported a failure and loaded is true
C2_Witness ==
  /\ loaded
  /\ getProcessed = 1
  /\ last.method = "notes.get"
  /\ ~last.success

\* C3: a notes.add answer with success = true puts the returned note in
\* front of the local list, the notes already there following in their
\* order; with success = false the local list is unchanged.
C3_AddPrepends ==
  [][\A r \in Consumed :
       r.method = "notes.add" =>
         IF r.success
         THEN /\ Len(notes') = Len(notes) + 1
              /\ notes'[1] = r.data
              /\ \A i \in 1..Len(notes) : notes'[i + 1] = notes[i]
         ELSE notes' = notes]_vars

\* a successful add has just been processed on a list that was not empty
C3_Witness ==
  /\ last.method = "notes.add"
  /\ last.success
  /\ Len(last.before) > 0
  /\ notes = <<last.data>> \o last.before

\* C4: processing a notes.edit answer, successful or not, issues exactly
\* one notes.get request; calling edit issues none, and no other step issues
\* a notes.get on behalf of edit.
C4_EditReloadsOnce ==
  [][/\ \A r \in Consumed :
          r.method = "notes.edit" =>
            Cardinality({q \in Issued : q.method = "notes.get"}) = 1
     /\ (\E q \in Issued : q.method = "notes.edit") =>
          ~ \E q \in Issued : q.method = "notes.get"
     /\ \A q \in Issued :
          (q.method = "notes.get" /\ q.origin = "edit") =>
            \E r \in Consumed : r.method = "notes.edit"]_vars

\* a failed edit has just been processed and its reload is in flight
C4_Witness ==
  /\ last.method = "notes.edit"
  /\ ~last.success
  /\ \E q \in requests : q.method = "notes.get" /\ q.origin = "edit"

\* C5: the step that issues notes.remove has already taken every note with
\* that id out of the local list, and the answer to notes.remove, success
\* or failure, does not change the local list.
C5_RemoveIsOptimistic ==
  [][/\ \A q \in Issued :
          q.method = "notes.remove" =>
            /\ q.note_id \notin IdsOf(notes')
            /\ notes' = SelectSeq(notes, LAMBDA n : n._id # q.note_id)
     /\ \A r \in Consumed :
          r.method = "notes.remove" => notes' = notes]_vars

\* the backend refused a remove: the note is still stored there and is not
\* back in the local list
C5_Witness ==
  /\ last.method = "notes.remove"
  /\ ~last.success
  /\ last.note_id \in IdsOf(db)
  /\ last.note_id \notin IdsOf(notes)
  /\ last.before = notes

\* the reload started by the last edit has been processed
EditReloaded ==
  /\ ~EditBusy
  /\ last.method = "notes.get"
  /\ last.origin = "edit"

\* C6 as stated: with every call answered and nothing else started in
\* between, an edit is followed by a state where the local list is the list
\* the backend held when it answered the reload of that edit.
C6_EditAlwaysReconciled ==
  EditBusy ~> (EditReloaded /\ notes = last.snapshot)

\* C6, amended: the same, provided the answer to that reload reports
\* success.
C6_EditReconciledOnSuccess ==
  EditBusy ~> (EditReloaded /\ (last.success => notes = last.snapshot))

\* the reload of an edit has succeeded and replaced a list that differed
\* from the backend's
C6_Witness ==
  /\ EditReloaded
  /\ last.success
  /\ last.before # last.snapshot
  /\ notes = last.snapshot

(***************************************************************************)
(* Properties of the filter/search engine.                                 *)
(***************************************************************************)
\* the notes of list at the positions of S, in the order of list
Restrict(list, S) ==
  LET idx == SelectSeq([i \in 1..Len(list) |-> i], LAMBDA i : i \in S)
  IN  [k \in 1..Len(idx) |-> list[idx[k]]]

\* a is b with some of its notes left out
IsSublist(a, b) == \E S \in SUBSET (1..Len(b)) : a = Restrict(b, S)

\* C7: for a caller without the privilege, every note of the filtered
\* output has external_note equal to true, whatever the list, the selected
\* category and the query.
C7_NonPrivilegedSeesExternalOnly ==
  ~isPlugPowerUser =>
    \A i \in 1..Len(filteredNotesWithHtml) :
      filteredNotesWithHtml[i].external_note = Some(TRUE)

\* a caller without the privilege, with a category and a query set, gets a
\* note while a note not flagged external is in the list
C7_Witness ==
  /\ ~isPlugPowerUser
  /\ filter.selectedCategoryId # None
  /\ Truthy(filter.searchQuery)
  /\ Len(filteredNotesWithHtml) > 0
  /\ \E i \in 1..Len(notesWithHtml) : notesWithHtml[i].external_note # Some(TRUE)

\* the three tests a note has to pass, stated on one note
PassesGate(note) == isPlugPowerUser \/ note.external_note = Some(TRUE)

PassesCategory(note) ==
  filter.selectedCategoryId = None \/ note.category = filter.selectedCategoryId

PassesQuery(note) ==
  \/ filter.searchQuery = None
  \/ filter.searchQuery[1] = <<>>
  \/ MatchesQuery(evaluatedWith, translations, note, ToLower(filter.searchQuery[1]))

\* C8: the filtered output is the input list with some notes left out, the
\* others in their order, and every note kept passes the visibility gate,
\* the category filter and, when there is a query, the text match.
C8_OutputIsFilteredSublist ==
  \E S \in SUBSET (1..Len(notesWithHtml)) :
    /\ filteredNotesWithHtml = Restrict(notesWithHtml, S)
    /\ \A i \in S :
         /\ PassesGate(notesWithHtml[i])
         /\ PassesCategory(notesWithHtml[i])
         /\ PassesQuery(notesWithHtml[i])

\* with a category and a query set, the first note of the list is left out
\* and the second is kept
C8_Witness ==
  /\ filter.selectedCategoryId # None
  /\ Truthy(filter.searchQuery)
  /\ Len(notesWithHtml) = 2
  /\ filteredNotesWithHtml = <<notesWithHtml[2]>>
  /\ notesWithHtml[1] # notesWithHtml[2]

\* the values the user directory can have
AnyUsersDict == {None} \cup {Some(d) : d \in UsersDicts}

\* C9 as stated: the output is the same for every value of the user
\* directory and of the translation table, given the list, the category,
\* the query and the privilege flag.
C9_PureInFourInputs ==
  \A d \in AnyUsersDict, tr \in Translations :
    FilterNotes(filter, notesWithHtml, isPlugPowerUser, d, tr) = filteredNotesWithHtml

\* d and tr resolve the author of every note of the list to the name the
\* last evaluation resolved
SameAuthorNames(d, tr) ==
  \A i \in 1..Len(notesWithHtml) :
    getNoteUserName(d, tr, notesWithHtml[i]) =
      getNoteUserName(evaluatedWith, translations, notesWithHtml[i])

\* C9, amended: given the four inputs, the output is the same for every
\* user directory and translation table that resolve the same author name
\* for each note of the list.
C9_PureGivenAuthorNames ==
  \A d \in AnyUsersDict, tr \in Translations :
    SameAuthorNames(d, tr) =>
      FilterNotes(filter, notesWithHtml, isPlugPowerUser, d, tr) = filteredNotesWithHtml

\* a query is set, another directory resolves the same names and gives the
\* same output, and a third one gives another output
C9_Witness ==
  /\ Truthy(filter.searchQuery)
  /\ Len(filteredNotesWithHtml) > 0
  /\ \E d \in AnyUsersDict : d # evaluatedWith /\ SameAuthorNames(d, translations)
  /\ \E d \in AnyUsersDict :
       FilterNotes(filter, notesWithHtml, isPlugPowerUser, d, translations)
         # filteredNotesWithHtml

\* the output for the same inputs with no category selected
WithoutCategory ==
  FilterNotes([filter EXCEPT !.selectedCategoryId = None], notesWithHtml,
              isPlugPowerUser, evaluatedWith, translations)

\* C10: the output with a category selected is the output with no category
\* selected (same list, query and privilege flag) with some notes left out,
\* so it is never longer.
C10_CategoryOnlyNarrows ==
  filter.selectedCategoryId # None =>
    /\ IsSublist(filteredNotesWithHtml, WithoutCategory)
    /\ Len(filteredNotesWithHtml) <= Len(WithoutCategory)

\* selecting a category has left out a note and kept another
C10_Witness ==
  /\ filter.selectedCategoryId # None
  /\ Len(filteredNotesWithHtml) = 1
  /\ Len(WithoutCategory) = 2

(***************************************************************************)
(* Properties of the add flow seen through the filter.                     *)
(***************************************************************************)
\* the structured multi-entry fields of a note
StackFields ==
  {"stack_replacements", "stack_inspections", "stack_tensioning", "stack_installs"}

\* the i-th note of the local list was created through the add flow as a
\* calibration note with tag numbers, a load has returned it, and the user
\* is let through the visibility gate to it
AddedCalibrationLoaded(i) ==
  /\ notes[i]._id \notin IdsOf(StoredNotes)
  /\ Field(notes[i], "note_category") = Some(CalibrationName)
  /\ Field(notes[i], "tag_numbers") # None
  /\ last.method = "notes.get"
  /\ last.success
  /\ notes = last.data
  /\ isPlugPowerUser \/ Field(notes[i], "external_note") = Some(TRUE)

\* C11: a note created through add with note_category "Calibration" and tag
\* numbers, once a load has returned it, is what the filter returns, and
\* the only note it returns, when the selected category id is the id the
\* category map gives to Calibration.
C11_AddedCalibrationFoundByCategory ==
  \A i \in 1..Len(notes) :
    AddedCalibrationLoaded(i) =>
      \E id \in CategoryIds :
        FilterNotes([searchQuery |-> None, selectedCategoryId |-> Some(id)],
                    Projected(notes), isPlugPowerUser, usersDict, translations)
          = <<Projected(notes)[i]>>

(***************************************************************************)
(* Properties of the search over the structured fields.                    *)
(***************************************************************************)
\* C12: a note that has a structured multi-entry field whose raw packed
\* text contains the search query, case-insensitively, and that passes the
\* visibility gate and the category filter, is in the filtered list.
C12_RawTextOfEveryStructuredFieldSearched ==
  \A i \in 1..Len(notesWithHtml) :
    \A f \in StackFields :
      ( /\ Truthy(filter.searchQuery)
        /\ Truthy(notesWithHtml[i][f])
        /\ Includes(ToLower(notesWithHtml[i][f][1]), ToLower(filter.searchQuery[1]))
        /\ PassesGate(notesWithHtml[i])
        /\ PassesCategory(notesWithHtml[i]) )
      => \E j \in 1..Len(filteredNotesWithHtml) :
           filteredNotesWithHtml[j] = notesWithHtml[i]

(***************************************************************************)
(* Properties of the codec of the structured fields.                       *)
(***************************************************************************)
\* the identifiers the encoder visits for the agent or asset
Relevant(name) == {stackIdentifiers(name)[i] : i \in 1..Len(stackIdentifiers(name))}

\* no apostrophe and no semicolon in the text
Clean(text) == \A i \in 1..Len(text) : text[i] \notin {"'", ";"}

CleanReplacement(g) ==
  /\ Clean(g.removed_serial_number)
  /\ Clean(g.added_serial_number)
  /\ Clean(g.stack_symptom)

\* the records of a form in the order of the identifiers, those that keep
\* does not hold for left out
RecordsOfForm(form, name, keep(_)) ==
  LET ids == SelectSeq(stackIdentifiers(name),
                       LAMBDA id : id \in DOMAIN form /\ keep(form[id]))
  IN  [i \in 1..Len(ids) |-> [stack_identifier |-> ids[i]] @@ form[ids[i]]]

\* a form of stack replacements has been encoded and decoded again, its
\* identifiers relevant and its sub-values without apostrophe and semicolon
ReplacementsRoundTrip ==
  /\ codec.step \in {"decoded", "reencoded"}
  /\ codec.writer \in Revisions
  /\ codec.category = StackReplacementsName
  /\ DOMAIN codec.form \subseteq Relevant(agentOrAssetName)
  /\ \A id \in DOMAIN codec.form : CleanReplacement(codec.form[id])

\* C13 as stated: decoding the encoded field of stack replacements yields
\* the records of the form, those whose sub-values are all empty left out
\* and no other.
C13_RoundTripDropsAllEmptyOnly ==
  ReplacementsRoundTrip =>
    codec.records =
      RecordsOfForm(codec.form, agentOrAssetName, LAMBDA g : g # NoReplacement)

\* C13, amended: decoding the encoded field of stack replacements yields the
\* records of the form that have a removed or an added serial number, in
\* the order of the identifiers; a record with neither is left out, also
\* when it has a symptom or a confirmed flag.
C13_RoundTripKeepsRecordsWithSerial ==
  ReplacementsRoundTrip =>
    codec.records =
      RecordsOfForm(codec.form, agentOrAssetName,
                    LAMBDA g : g.removed_serial_number # <<>>
                               \/ g.added_serial_number # <<>>)

\* a form with two stacks: the one with a serial number came back with its
\* symptom and flag, the one with a symptom only did not
C13_Witness ==
  /\ ReplacementsRoundTrip
  /\ Cardinality(DOMAIN codec.form) = 2
  /\ Len(codec.records) = 1
  /\ codec.records[1].stack_symptom_confirmed
  /\ \E id \in DOMAIN codec.form :
       /\ codec.form[id].stack_symptom # <<>>
       /\ codec.form[id].removed_serial_number = <<>>
       /\ codec.form[id].added_serial_number = <<>>

\* the whole of r is one tuple of the shape
IsTuple(r, shape) ==
  /\ Len(r) >= 2
  /\ r[1] = "("
  /\ r[2] = "'"
  /\ MatchFrom(r, 2, shape, 1) # None
  /\ TupleText(MatchFrom(r, 2, shape, 1)[1]) = r

\* the tuples of a field that ends with a semicolon
TuplesOfField(field) ==
  LET segs == Split(field, ";") IN SubSeq(segs, 1, Len(segs) - 1)

\* the shapes of the grammar: the tuple of five sub-values down to the
\* tuple of two
TupleShapes ==
  {ReplacementShape, InspectionShape, InspectionSvelteShape, InspectionOldShape,
   InstallShape}

\* tuples in parentheses, sub-values quoted and separated by commas, tuples
\* joined by semicolons, a semicolon at the end
WellFormed(field) ==
  /\ Len(field) > 1
  /\ field[Len(field)] = ";"
  /\ \A i \in 1..Len(TuplesOfField(field)) :
       \E shape \in TupleShapes : IsTuple(TuplesOfField(field)[i], shape)

\* the sub-values of a tuple, its identifier first
SubValues(r) ==
  LET shape == CHOOSE s \in TupleShapes : IsTuple(r, s)
  IN  MatchFrom(r, 2, shape, 1)[1]

\* a sub-value other than the identifier and a flag is filled in
NotAllEmpty(r) ==
  \E k \in 2..Len(SubValues(r)) :
    SubValues(r)[k] \notin {<<>>, BoolText(TRUE), BoolText(FALSE)}

\* the shape the newer revision writes for the category
CurrentShape(category) ==
  CASE category = StackReplacementsName -> ReplacementShape
    [] category = StackInspectionName -> InspectionShape
    [] category = StackTensioningName -> InspectionShape
    [] category = StackInstallsName -> InstallShape

\* the serial number the newer revision asks of a tuple of the category
HasSerial(category, v) ==
  IF category = StackInstallsName THEN v[2] # <<>>
  ELSE v[2] # <<>> \/ v[3] # <<>>

\* the field holds tuples of the current shape only, in the order of the
\* identifiers of the agent or asset, each with a serial number and, where
\* the shape has a flag, the flag "true" or "false"
Canonical(category, field, name) ==
  LET tuples == TuplesOfField(field)
      shape == CurrentShape(category)
  IN  /\ WellFormed(field)
      /\ \A i \in 1..Len(tuples) :
           /\ IsTuple(tuples[i], shape)
           /\ HasSerial(category, SubValues(tuples[i]))
           /\ category # StackInstallsName =>
                SubValues(tuples[i])[Len(shape)] \in {BoolText(TRUE), BoolText(FALSE)}
      /\ IsSublist([i \in 1..Len(tuples) |-> SubValues(tuples[i])[1]],
                   stackIdentifiers(name))

\* C14 as stated: a well-formed field without an all-empty tuple, decoded
\* into the edit form and encoded again without a change, is written back
\* as it was.
C14_ReencodeReproducesWellFormed ==
  ( /\ codec.step = "reencoded"
    /\ codec.field # None
    /\ WellFormed(codec.field[1])
    /\ \A i \in 1..Len(TuplesOfField(codec.field[1])) :
         NotAllEmpty(TuplesOfField(codec.field[1])[i]) )
  => codec.again = codec.field

\* C14, amended: a field of tuples of the current shape, in the order of the
\* stack identifiers of the agent or asset, each with a serial number and a
\* flag "true" or "false", decoded into the edit form and encoded again
\* without a change, is written back as it was.
C14_ReencodeReproducesCanonical ==
  ( /\ codec.step = "reencoded"
    /\ codec.field # None
    /\ Canonical(codec.category, codec.field[1], agentOrAssetName) )
  => codec.again = codec.field

\* a field of two tuples, one of them with a flag "true", written back as
\* it was
C14_Witness ==
  /\ codec.step = "reencoded"
  /\ codec.field # None
  /\ Canonical(codec.category, codec.field[1], agentOrAssetName)
  /\ Len(codec.records) = 2
  /\ \E i \in 1..2 :
       /\ "stack_symptom_confirmed" \in DOMAIN codec.records[i]
       /\ codec.records[i].stack_symptom_confirmed
  /\ codec.again = codec.field

(***************************************************************************)
(* Properties of the handlers of the dialogs.                              *)
(***************************************************************************)
\* C15: every value that the add, edit and recategorize flows write to a
\* structured multi-entry field is well formed: tuples in parentheses,
\* quoted sub-values separated by commas, tuples joined by semicolons and a
\* semicolon at the end; a field without a tuple is absent or null, never
\* the empty string.
C15_WrittenFieldsWellFormed ==
  \A q \in requests :
    q.method \in {"notes.add", "notes.edit"} =>
      \A f \in StackFields \cap DOMAIN q.note :
        q.note[f] = None \/ WellFormed(q.note[f][1])

\* the form submitted in this step is an edit or a recategorize form of a
\* stack category that yields no tuple
ZeroTuplesSubmitted ==
  /\ submitted' # submitted
  /\ submitted'.flow \in {"edit", "recategorize"}
  /\ submitted'.outcome \in {"sent", "rejected"}
  /\ submitted'.category # None
  /\ submitted'.category[1] \in StackCategories
  /\ Len(Tuples(submitted'.rev, submitted'.category[1], submitted'.groups,
                submitted'.name)) = 0

\* C16: a submission of the edit or the recategorize form of a stack
\* category that yields no tuple is rejected: the step issues no request
\* and leaves the local list of notes as it is.
C16_ZeroTuplesRejected ==
  [][ZeroTuplesSubmitted =>
       /\ requests' = requests
       /\ notes' = notes
       /\ submitted'.outcome = "rejected"]_vars

\* an edit form with a symptom but no serial number was rejected: the alert
\* is open and no notes.edit is on its way
C16_Witness ==
  /\ submitted.flow = "edit"
  /\ submitted.outcome = "rejected"
  /\ submitted.category = Some(StackReplacementsName)
  /\ submitted.groups # <<>>
  /\ alertDialog = Some("Validation Error")
  /\ \A q \in requests : q.method # "notes.edit"

\* C17: after a validation failure in the edit or the recategorize flow the
\* alert is shown and the flow does not end before the form has been
\* presented again: while the rejected form has not been presented again,
\* the alert is open and the handler of the flow is still running.
C17_FormPresentedAgain ==
  (submitted.flow \in {"edit", "recategorize"} /\ submitted.outcome = "rejected")
    => (alertDialog # None /\ dialog.flow = submitted.flow)

\* the category-specific fields of Note in a revision
CategorySpecific(rev) ==
  {"tag_numbers", "software_type", "version", "workorder_id"}
  \cup {FieldOf(c) : c \in StackCategoriesOf(rev)}

\* the category-specific fields that belong to a category
FieldsOfCategory(category) ==
  CASE category \in {CalibrationName, SettingsChangeName} -> {"tag_numbers"}
    [] category = SoftwareUpdateName -> {"software_type", "version"}
    [] category = StackReplacementsName -> {"workorder_id", "stack_replacements"}
    [] category \in StackCategories -> {FieldOf(category)}
    [] OTHER -> {}

\* C18: every notes.edit payload the recategorize flow sends sets to null
\* each category-specific field that does not belong to the new category,
\* so that the note merged with the payload keeps no field of its previous
\* category.
C18_RecategorizeClearsOldFields ==
  [][(submitted' # submitted /\ submitted'.flow = "recategorize"
        /\ submitted'.outcome = "sent") =>
       \A q \in requests' \ requests :
         /\ q.method = "notes.edit"
         /\ q.note.note_category = submitted'.category
         /\ \A f \in CategorySpecific(submitted'.rev)
                       \ FieldsOfCategory(submitted'.category[1]) :
              /\ f \in DOMAIN q.note
              /\ q.note[f] = None
              /\ \A i \in 1..Len(db) :
                   db[i]._id = q.note_id => Field(Merge(db[i], q.note), f) = None]_vars

\* the note of stack replacements, with its workorder, is on its way to
\* become a calibration note
C18_Witness ==
  /\ submitted.flow = "recategorize"
  /\ submitted.outcome = "sent"
  /\ \E q \in requests :
       /\ q.method = "notes.edit"
       /\ q.note.note_category = Some(CalibrationName)
       /\ \E i \in 1..Len(db) :
            /\ db[i]._id = q.note_id
            /\ Truthy(Field(db[i], "workorder_id"))
            /\ Truthy(Field(db[i], "stack_replacements"))

\* the tuple of stack replacements without its flag, and the tuple of an
\* inspection without its flag
FlaglessShapes(category) ==
  CASE category = StackReplacementsName -> {<<TRUE, FALSE, FALSE, FALSE>>}
    [] category = StackInspectionName -> {InspectionOldShape}
    [] OTHER -> {}

\* the field holds tuples without a trailing flag only: inspections as the
\* older revision wrote them, or a stored field of flagless tuples
Historical ==
  /\ codec.field # None
  /\ \/ codec.writer = "service-logbook.svelte" /\ codec.category = StackInspectionName
     \/ /\ codec.writer = "none"
        /\ Segments(codec.field[1]) # <<>>
        /\ \A i \in 1..Len(Segments(codec.field[1])) :
             \E shape \in FlaglessShapes(codec.category) :
               IsTuple(Segments(codec.field[1])[i], shape)

\* the flag of a decoded record
FlagOf(record) ==
  IF "stack_completed" \in DOMAIN record THEN record.stack_completed
  ELSE record.stack_symptom_confirmed

\* C19: every tuple of a field written without the trailing flag is decoded
\* into a record, none is dropped, and the flag of the record is false.
C19_FlaglessTuplesDecoded ==
  (codec.step = "decoded" /\ Historical) =>
    /\ Len(codec.records) = Len(Segments(codec.field[1]))
    /\ \A i \in 1..Len(codec.records) : ~FlagOf(codec.records[i])

\* the requests issued and the answers consumed by a step
Sent == requests' \ requests

\* C20: the backend import is called only with a non-empty array, the file
\* itself or its notes member, that the user has confirmed; a file that
\* gives no array opens the error alert and an empty array the warning
\* alert, both without a request and without a change of the local list;
\* the handler that has awaited the import calls load.
C20_ImportOnlyConfirmedArray ==
  [][/\ \A q \in Sent :
          q.method = "notes.import" =>
            /\ submitted.flow = "import"
            /\ submitted.file[1].parsed \in {"array", "object"}
            /\ submitted.file[1].notes = Some(q.notes)
            /\ Len(q.notes) > 0
            /\ submitted'.outcome = "confirmed"
     /\ (submitted'.flow = "import" /\ submitted'.file # submitted.file) =>
          /\ submitted'.file[1].notes = None => alertDialog' = Some("Error")
          /\ submitted'.file[1].notes = Some(<<>>) => alertDialog' = Some("Warning")
          /\ Truthy(submitted'.file[1].notes) => alertDialog' = None
          /\ Sent = {}
          /\ notes' = notes
     /\ \A r \in responses \ responses' :
          r.method = "notes.import" =>
            \E q \in Sent : q.method = "notes.get"]_vars

\* the export wrapper was imported after the user confirmed, and the load
\* that follows the import is on its way
C20_Witness ==
  /\ submitted.flow = "import"
  /\ submitted.outcome = "confirmed"
  /\ submitted.file[1].parsed = "object"
  /\ last.method = "notes.import"
  /\ \E q \in requests : q.method = "notes.get" /\ q.origin = "import"

(***************************************************************************)
(* Properties of the bulk export and import.                               *)
(***************************************************************************)
\* the step of the download button: a handler starts and opens no dialog
ExportStarts ==
  /\ calls' = calls + 1
  /\ dialog' = NoDialog
  /\ submitted'.flow = "export"
  /\ submitted'.outcome = "asked"

\* the step of the consent to an import: the confirmation closes with a yes
ImportStarts ==
  /\ dialog.flow = "import"
  /\ dialog.step = "confirm"
  /\ dialog' = NoDialog
  /\ submitted'.outcome = "confirmed"

\* C21: exportData() issues exactly one notes.export call and hands back the
\* answer of the backend; importData(records) issues exactly one notes.import
\* call that carries the records it was given; neither the calls nor the
\* processing of their answers change the notes list or the loaded flag.
C21_BulkCallsPassThrough ==
  [][/\ ExportStarts =>
          /\ Cardinality(Sent) = 1
          /\ \A q \in Sent : q.method = "notes.export"
          /\ notes' = notes /\ loaded' = loaded
     /\ (\E q \in Sent : q.method = "notes.export") =>
          ExportStarts
     /\ ImportStarts =>
          /\ Cardinality(Sent) = 1
          /\ \A q \in Sent : q.method = "notes.import" /\ q.notes = dialog.initialValue
          /\ notes' = notes /\ loaded' = loaded
     /\ (\E q \in Sent : q.method = "notes.import") =>
          ImportStarts
     /\ \A r \in Consumed :
          r.method \in {"notes.export", "notes.import"} =>
            /\ notes' = notes /\ loaded' = loaded
            /\ last'.success = r.success /\ last'.data = r.data]_vars

\* the notes of a file have been imported with the consent of the user, and
\* an export made afterwards has been answered with the notes the backend
\* holds since
C21_Witness ==
  /\ last.method = "notes.export"
  /\ last.success
  /\ last.data.notes = db
  /\ db # StoredNotes
  /\ Len(db) > 0

(***************************************************************************)
(* Properties of the names shown with a note.                              *)
(***************************************************************************)
\* the name the directory has for an id, if it has one
Found(dict, id) == dict # None /\ Truthy(DictName(dict[1], id))

\* translations.UNKNOWN_USER || "Unknown User"
Placeholder(tr) ==
  IF Truthy(tr.UNKNOWN_USER) THEN tr.UNKNOWN_USER[1] ELSE UnknownUserDefault

\* the directory name for author_id, else the author_name of the note, else
\* the directory name for the legacy user, else the placeholder
AuthorByPrecedence(dict, tr, note) ==
  IF Found(dict, note.author_id) THEN DictName(dict[1], note.author_id)[1]
  ELSE IF Truthy(note.author_name) THEN note.author_name[1]
  ELSE IF Found(dict, note.user) THEN DictName(dict[1], note.user)[1]
  ELSE Placeholder(tr)

\* C22: the author name shown with a note is the directory name for its
\* author_id if found, otherwise the author_name kept on the note, otherwise
\* the directory name for its legacy user, otherwise the placeholder.
C22_AuthorNamePrecedence ==
  rendered.step = "who" =>
    rendered.userName =
      Some(AuthorByPrecedence(rendered.dict, rendered.tr, rendered.note))

\* the directory name for editor_id, else the editor_name of the note, else
\* the empty string
EditorByPrecedence(dict, note) ==
  IF Found(dict, note.editor_id) THEN DictName(dict[1], note.editor_id)[1]
  ELSE IF Truthy(note.editor_name) THEN note.editor_name[1]
  ELSE <<>>

\* C23: the editor name shown with a note is the directory name for its
\* editor_id if found, otherwise the editor_name kept on the note; it is the
\* empty string exactly when neither gives a name, and never the placeholder.
C23_EditorNamePrecedence ==
  rendered.step = "who" =>
    /\ rendered.editedBy = EditorByPrecedence(rendered.dict, rendered.note)
    /\ rendered.editedBy # Placeholder(rendered.tr)

(***************************************************************************)
(* Properties of the lifecycle client under races of calls and answers.    *)
(***************************************************************************)
\* C24: in every reachable state no two notes of the local list have the
\* same _id, whatever the interleaving of the add, edit, load and remove
\* calls and the order in which their answers are processed (the backend
\* itself never holds two notes with one id).
C24_NoDuplicateIds ==
  \A i, j \in 1..Len(notes) : notes[i]._id = notes[j]._id => i = j

\* C25: once remove(id) has been called and the backend has taken the note
\* out of its store (only notes.remove does, and the call precedes it), no
\* answer processed afterwards puts a note with that _id into the local
\* list, the answer of a load sent before the remove included.
C25_RemovedStaysRemoved ==
  [][\A r \in Consumed :
       \A id \in IdsOf(notes') \ IdsOf(notes) : id \in IdsOf(db)]_vars

\* C26: processing a notes.edit answer leaves the length and the order of
\* the local list as they are and changes no note but those with the edited
\* id, which get the returned fields merged over their own; an answer with
\* success = false, or for an id no local note has, changes nothing.
C26_EditResponseFrame ==
  [][\A r \in Consumed :
       r.method = "notes.edit" =>
         /\ Len(notes') = Len(notes)
         /\ \A i \in 1..Len(notes) :
              notes'[i] = IF r.success /\ notes[i]._id = r.note_id
                          THEN Merge(notes[i], r.data)
                          ELSE notes[i]
         /\ (~r.success \/ r.note_id \notin IdsOf(notes)) => notes' = notes]_vars

\* a successful edit has just been merged into one note of a list of two,
\* and the other note is as it was
C26_Witness ==
  /\ last.method = "notes.edit"
  /\ last.success
  /\ Len(last.before) = 2
  /\ Len(notes) = 2
  /\ \E i \in 1..2 :
       /\ notes[i]._id = last.note_id
       /\ notes[i] # last.before[i]
       /\ notes[3 - i] = last.before[3 - i]

(***************************************************************************)
(* Properties of the privilege flag.                                       *)
(***************************************************************************)
\* a step makes the flag true only when a lookup returns, in that step, an
\* address that contains "@plugpower.com" whatever its case
RaisedByPlugPowerEmail ==
  [][(isPlugPowerUser' /\ ~isPlugPowerUser) =>
       /\ Truthy(userEmail')
       /\ Includes(ToLower(userEmail'[1]),
                   <<"@", "p", "l", "u", "g", "p", "o", "w", "e", "r", ".", "c", "o", "m">>)]_vars

\* as long as the flag is false the visible list holds only external notes
ExternalOnlyWhileNotPrivileged ==
  [](~isPlugPowerUser =>
       \A i \in 1..Len(filteredNotesWithHtml) :
         filteredNotesWithHtml[i].external_note = Some(TRUE))

\* C27: the privilege flag is false at first and becomes true only after a
\* lookup of the email of the user has returned an address that contains
\* "@plugpower.com"; while no address has been returned, or when the lookup
\* fails or returns no address, the user is not privileged; and a user who
\* is not privileged sees only notes flagged external.
C27_NotPrivilegedWithoutPlugPowerEmail ==
  /\ ~isPlugPowerUser
  /\ RaisedByPlugPowerEmail
  /\ [](~Truthy(userEmail) => ~isPlugPowerUser)
  /\ ExternalOnlyWhileNotPrivileged

\* C27, amended: the privilege flag is false at first and becomes true only
\* when a lookup returns an address that contains "@plugpower.com"; a lookup
\* that fails or returns no address leaves the flag as it was, so the user
\* is not privileged until a lookup has returned such an address; and a
\* user who is not privileged sees only notes flagged external.
C27_PrivilegedOnlyByPlugPowerEmail ==
  /\ ~isPlugPowerUser
  /\ RaisedByPlugPowerEmail
  /\ [][~Truthy(userEmail') => isPlugPowerUser' = isPlugPowerUser]_vars
  /\ ExternalOnlyWhileNotPrivileged

\* a lookup has returned an address of Plug Power written with capitals:
\* the flag is true and a note that is not external is visible
C27_Witness ==
  /\ isPlugPowerUser
  /\ Truthy(userEmail)
  /\ userEmail[1] # ToLower(userEmail[1])
  /\ \E i \in 1..Len(filteredNotesWithHtml) :
       filteredNotesWithHtml[i].external_note # Some(TRUE)

C29_AddWizardSteps ==
  [][/\ \A q \in Sent :
          q.method = "notes.add" =>
            /\ Sent = {q}
            /\ dialog.flow = "add"
            /\ dialog.step = "note"
            /\ dialog.category # None
            /\ dialog' = NoDialog
     /\ (dialog.flow = "add" /\ dialog.step = "note" /\ dialog' # dialog) =>
          \/ \E q \in Sent : q.method = "notes.add"
          \/ /\ Sent = {}
             /\ dialog' = [dialog EXCEPT !.step = "category"]
     /\ (dialog.flow = "add" /\ dialog.step = "category" /\ dialog' # dialog) =>
          /\ Sent = {}
          /\ \/ dialog' = NoDialog
             \/ /\ dialog'.flow = "add"
                /\ dialog'.step = "note"
                /\ dialog'.category # None
     /\ (dialog.flow = "add" /\ dialog' = NoDialog) =>
          \/ dialog.step = "category" /\ Sent = {}
          \/ dialog.step = "note" /\ \E q \in Sent : q.method = "notes.add"]_vars

\* a run of the add wizard has ended with its one call of notes.add, which
\* the backend has not answered yet
C29_Witness ==
  /\ dialog = NoDialog
  /\ submitted.flow = "add"
  /\ submitted.outcome = "sent"
  /\ Cardinality({q \in requests : q.method = "notes.add"}) = 1

(***************************************************************************)
(* Properties of the latest serial numbers.                                *)
(***************************************************************************)
\* the serials, not empty, that a note carries for an identifier
Carried(n, id) ==
  {SerialsOf(n)[k].serial : k \in {h \in 1..Len(SerialsOf(n)) :
                                     /\ SerialsOf(n)[h].identifier = id
                                     /\ SerialsOf(n)[h].serial # <<>>}}

\* the notes of the two categories that carry a serial for an identifier
Carriers(list, id) ==
  {i \in 1..Len(list) :
     /\ list[i].note_category \in {Some(StackInstallsName), Some(StackReplacementsName)}
     /\ Carried(list[i], id) # {}}

\* C30: the result of getLatestStackSerialNumbers has an entry exactly for
\* the identifiers, among the first getStackCount() of "a".."e", for which a
\* "Stack installs" or "Stack replacements" note carries a serial that is not
\* empty; the entry is such a serial of a note whose date (performed_on, else
\* created_on) no other such note exceeds; and the call leaves the list of
\* notes as it is.
C30_LatestSerialPerStack ==
  /\ [](rendered.step = "serials" =>
          LET result == rendered.serialNumbers
              needed == {allStackIdentifiers[i] : i \in 1..getStackCount(agentOrAssetName)}
          IN  /\ DOMAIN result = {id \in needed : Carriers(notes, id) # {}}
              /\ \A id \in DOMAIN result :
                   \E i \in Carriers(notes, id) :
                     /\ result[id] \in Carried(notes[i], id)
                     /\ \A j \in Carriers(notes, id) :
                          DateOf(notes[j]) <= DateOf(notes[i]))
  /\ [][rendered'.step = "serials" /\ rendered.step # "serials" => notes' = notes]_vars

\* the list holds two notes with a serial for one stack, the older one
\* first, and the result has the serial of the newer one
C30_Witness ==
  /\ rendered.step = "serials"
  /\ \E id \in DOMAIN rendered.serialNumbers :
       \E i, j \in Carriers(notes, id) :
         /\ i < j
         /\ DateOf(notes[i]) < DateOf(notes[j])
         /\ rendered.serialNumbers[id] \in Carried(notes[j], id)
         /\ rendered.serialNumbers[id] \notin Carried(notes[i], id)

====
